---- MODULE Spec2Model ----
(***************************************************************************)
(* A model of the spiddy pipeline: the source-file registry (span), the    *)
(* lexer, the recursive-descent parser with its follow-set stack, the      *)
(* name-to-index lowering and the two evaluators (eval, eval_loop).        *)
(*                                                                         *)
(* Every component has its own specification (SpecFiles, SpecLexer,        *)
(* SpecParser, SpecLower, SpecEval): its Init draws the component's input  *)
(* from a bounded set and its actions are the steps of the code.  The      *)
(* variables of the other components stay at their idle values.            *)
(***************************************************************************)
EXTENDS Integers, Sequences, FiniteSets, TLC

VARIABLES
    \* span::SourceFiles
    next_addr, files, lookup, returned,
    \* the SourceFile::get_line call made last
    line,
    \* compiler: what main wrote to the standard output, and how it ended
    stdout, exit_code,
    \* lexer::Lexer and the local state of Lexer::tokenize
    src_file, lexer, tokens, lex_result,
    \* parser::Parser and the call stack of parse_expr_eof
    parser,
    \* ast::de_bruijn::from_ast
    syn_expr, lowered,
    \* the build (overflow checks on or off), the expression evaluated, the
    \* state of eval::eval_loop and what eval::eval returned
    overflow_checks, expr, machine, eval_result,
    \* the arguments of a call of errors::highlight and what it returned
    highlight_call, highlighted,
    \* eval::stack::Stack and what its last operation returned
    value_stack, stack_out

\* the variables of the highlight call and of the stack
highlightVars == <<highlight_call, highlighted>>
stackVars == <<value_stack, stack_out>>

vars == <<next_addr, files, lookup, returned, line, stdout, exit_code, src_file,
          lexer, tokens, lex_result, parser, syn_expr, lowered, overflow_checks,
          expr, machine, eval_result, highlightVars, stackVars>>

\* what the steps of one component leave alone: the other components
filesFrame == UNCHANGED <<line, stdout, exit_code, src_file, lexer, tokens,
                          lex_result, parser, syn_expr, lowered, overflow_checks,
                          expr, machine, eval_result, highlightVars,
    stackVars>>
lineFrame == UNCHANGED <<next_addr, files, lookup, returned, stdout, exit_code,
                         src_file, lexer, tokens, lex_result, parser, syn_expr,
                         lowered, overflow_checks, expr, machine, eval_result, highlightVars,
    stackVars>>
lexerFrame == UNCHANGED <<next_addr, files, lookup, returned, line, stdout,
                          exit_code, parser, syn_expr, lowered, overflow_checks,
                          expr, machine, eval_result, highlightVars,
    stackVars>>
parserFrame == UNCHANGED <<next_addr, files, lookup, returned, line, stdout,
                           exit_code, src_file, lexer, tokens, lex_result,
                           syn_expr, lowered, overflow_checks, expr, machine,
                           eval_result, highlightVars,
    stackVars>>
lowerFrame == UNCHANGED <<next_addr, files, lookup, returned, line, stdout,
                          exit_code, src_file, lexer, tokens, lex_result, parser,
                          overflow_checks, expr, machine, eval_result, highlightVars,
    stackVars>>
evalFrame == UNCHANGED <<next_addr, files, lookup, returned, line, stdout,
                         exit_code, src_file, lexer, tokens, lex_result, parser,
                         syn_expr, lowered, overflow_checks, highlightVars,
    stackVars>>

(***************************************************************************)
(* Bounds of the model.                                                    *)
(***************************************************************************)
MaxFiles == 3        \* files registered in one run of SpecFiles
MaxContentLen == 2   \* bytes of a registered file's content in SpecFiles
MaxSrcLen == 3       \* characters of the lexer's input
MaxMainLen == 4      \* characters of the file the compiler is run on
MaxTokens == 5       \* tokens before Eof of the parser's input
MaxSynSize == 5      \* nodes of the named tree that is lowered
MaxExprSize == 6     \* nodes of the expression that is evaluated
MaxSteps == 32       \* turns of the loop of eval_loop, and calls of eval
MaxLineLen == 3      \* characters of the line that is highlighted
MaxSpanLen == 3      \* bytes of the span that is highlighted
MaxBenchmarkSteps == 400  \* turns of the loop of eval_loop on the benchmark
MaxStackOps == 4     \* operations on one Stack

\* Option<T> and Result<T, E>
None == [tag |-> "None"]
Some(v) == [tag |-> "Some", val |-> v]
Ok(v) == [tag |-> "Ok", val |-> v]
Err(e) == [tag |-> "Err", err |-> e]
\* a call that ends in panic!
Panic == [tag |-> "Panic"]

Last(s) == s[Len(s)]
Front(s) == SubSeq(s, 1, Len(s) - 1)

RECURSIVE SeqsUpTo(_, _)
\* all sequences over S of length at most n
SeqsUpTo(S, n) ==
    IF n = 0 THEN {<<>>}
    ELSE LET shorter == SeqsUpTo(S, n - 1)
         IN shorter \cup {Append(s, c) : s \in shorter, c \in S}

(***************************************************************************)
(* Characters.  A character is a one-character string; TwoByteChar stands  *)
(* for a character whose UTF-8 encoding has two bytes (such as U+00E9).    *)
(***************************************************************************)
TwoByteChar == "U+00E9"

len_utf8(c) == IF c = TwoByteChar THEN 2 ELSE 1

RECURSIVE ByteLen(_)
\* str::len: the length of a string in bytes
ByteLen(s) == IF s = <<>> THEN 0 ELSE len_utf8(Head(s)) + ByteLen(Tail(s))

\* the number of characters of s that end at byte i, or -1 when byte i is
\* not a character boundary of s
CharsBefore(s, i) ==
    LET ks == {k \in 0..Len(s) : ByteLen(SubSeq(s, 1, k)) = i}
    IN IF ks = {} THEN 0 - 1 ELSE CHOOSE k \in ks : TRUE

\* &s[a..b]: panics unless a <= b <= len and both are character boundaries
StrSlice(s, a, b) ==
    IF a <= b /\ CharsBefore(s, a) >= 0 /\ CharsBefore(s, b) >= 0
    THEN Ok(SubSeq(s, CharsBefore(s, a) + 1, CharsBefore(s, b)))
    ELSE Panic

(***************************************************************************)
(* span: Offset, Span, SourceFile, SourceFiles                             *)
(***************************************************************************)
Span(start, length) == [start |-> start, length |-> length]

\* Span::end
SpanEnd(span) == span.start + span.length

SourceFile(name, start, content) ==
    [name |-> name, start |-> start, content |-> content]

FileNames == {"one", "two"}
FileContents == SeqsUpTo({"a"}, MaxContentLen) \cup {<<TwoByteChar>>}

\* SourceFiles::new
NewSourceFiles ==
    /\ next_addr = 0
    /\ files = <<>>
    /\ lookup = None
    /\ returned = None

\* new_source_file advancing next_addr by the characters of the content
NewSourceFileByChars(name, content) ==
    /\ Len(files) < MaxFiles
    /\ next_addr' = next_addr + Len(content)
    /\ files' = Append(files, SourceFile(name, next_addr, content))
    /\ returned' = Some(next_addr)
    /\ lookup' = None
    /\ filesFrame

\* SourceFiles::__new_source_file, through new_source_file (size = content.len()),
\* which returns the start of the new file.  The call takes &mut self, so no
\* &SourceFile of an earlier get_by_offset is alive across it: lookup is
\* dropped.  The offsets of the model stay far below 2^32.
NewSourceFile(name, content) ==
    /\ Len(files) < MaxFiles
    /\ LET start == next_addr
       IN /\ next_addr' = start + ByteLen(content)
          /\ files' = Append(files, SourceFile(name, start, content))
          /\ returned' = Some(start)
    /\ lookup' = None
    /\ filesFrame

\* slice::binary_search_by_key on a slice sorted by key: Ok(i) for an i with
\* keys[i] = target ("if there are multiple matches, then any one of the matches
\* could be returned"), else Err(i) for the insertion point.  Indices from 0.
BinarySearchResults(keys, target) ==
    LET hits == {i \in 1..Len(keys) : keys[i] = target}
        less == {i \in 1..Len(keys) : keys[i] < target}
    IN IF hits # {} THEN {Ok(i - 1) : i \in hits}
       ELSE {Err(Cardinality(less))}

\* SourceFiles::get_by_offset: the outcomes the call can have, Ok(ix) for the
\* index (from 0) of the file returned, or a panic (ix - 1 is a usize)
GetByOffsetResults(offset) ==
    IF offset >= next_addr THEN {Panic}
    ELSE LET keys == [i \in 1..Len(files) |-> files[i].start]
         IN {IF r.tag = "Ok" THEN Ok(r.val)
             ELSE IF r.err = 0 THEN Panic ELSE Ok(r.err - 1)
             : r \in BinarySearchResults(keys, offset)}

GetByOffset(offset) ==
    /\ \E res \in GetByOffsetResults(offset) :
          lookup' = Some([offset |-> offset, res |-> res])
    /\ UNCHANGED <<next_addr, files, returned>>
    /\ filesFrame

\* span::Line
Line(offset, number, content) ==
    [offset |-> offset, number |-> number, content |-> content]

is_newline(c) == c = "\n"

RECURSIVE get_line_chars(_, _, _, _, _, _, _)
\* the loop of get_line over content.chars(), from the character at the head
\* of chars on: what pos, line_start, line_end, number and found are after it
get_line_chars(chars, offset, pos, line_start, line_end, number, found) ==
    IF chars = <<>>
    THEN [line_start |-> line_start, line_end |-> line_end, number |-> number,
          found |-> found]
    ELSE IF found
    THEN IF is_newline(Head(chars))
         THEN [line_start |-> line_start, line_end |-> pos, number |-> number,
               found |-> found]
         ELSE get_line_chars(Tail(chars), offset, pos + len_utf8(Head(chars)),
                             line_start, pos + len_utf8(Head(chars)), number, found)
    ELSE get_line_chars(Tail(chars), offset, pos + len_utf8(Head(chars)),
                        IF is_newline(Head(chars)) THEN pos + len_utf8(Head(chars))
                        ELSE line_start,
                        line_end,
                        IF is_newline(Head(chars)) THEN number + 1 ELSE number,
                        pos >= offset)

\* the end of get_line: the Line, or a panic (no character at or after the
\* offset, or a slice whose start is after its end)
get_line_found(file, at) ==
    IF at.found /\ StrSlice(file.content, at.line_start, at.line_end).tag = "Ok"
    THEN Ok(Line(file.start + at.line_start, at.number,
                 StrSlice(file.content, at.line_start, at.line_end).val))
    ELSE Panic

\* SourceFile::get_line, for an offset not before the start of the file
get_line(file, offset) ==
    get_line_found(file, get_line_chars(file.content, offset - file.start,
                                        0, 0, 0, 1, FALSE))

\* file.get_line(offset) on the file at hand
GetLine(offset) ==
    /\ line' = Some([offset |-> offset, res |-> get_line(src_file, offset)])
    /\ lineFrame

(***************************************************************************)
(* lexer: Token, Error, Lexer                                              *)
(***************************************************************************)
AsciiLowercase ==
    {"a", "b", "c", "d", "e", "f", "g", "h", "i", "j", "k", "l", "m",
     "n", "o", "p", "q", "r", "s", "t", "u", "v", "w", "x", "y", "z"}
AsciiUppercase ==
    {"A", "B", "C", "D", "E", "F", "G", "H", "I", "J", "K", "L", "M",
     "N", "O", "P", "Q", "R", "S", "T", "U", "V", "W", "X", "Y", "Z"}
AsciiDigit == {"0", "1", "2", "3", "4", "5", "6", "7", "8", "9"}

is_ident_start(c) == c \in AsciiLowercase
is_ident_body(c) == c \in AsciiLowercase \cup AsciiUppercase \cup AsciiDigit

\* Token { data, span }; only TokenData::Ident has a payload
Token(data, span) == [data |-> data, span |-> span]
IdentToken(text, span) == [data |-> "Ident", text |-> text, span |-> span]

\* Token::token_type
token_type(token) == token.data

\* Chars::next on the characters of the file; position counts the characters
\* already taken
CharsNext(position) ==
    IF position < Len(src_file.content)
    THEN Some(src_file.content[position + 1])
    ELSE None

\* Lexer::from_source_file
from_source_file ==
    [current |-> CharsNext(0), position |-> 1, offset |-> src_file.start]

\* Lexer::lookahead
lookahead(lx) == lx.current

\* Lexer::consume
consume(lx) ==
    [current |-> CharsNext(lx.position),
     position |-> lx.position + 1,
     offset |-> lx.offset + (IF lx.current = None THEN 0
                             ELSE len_utf8(lx.current.val))]

RECURSIVE consume_while_ident_body(_)
\* the while loop of Lexer::consume_ident_body
consume_while_ident_body(lx) ==
    IF lookahead(lx) # None /\ is_ident_body(lookahead(lx).val)
    THEN consume_while_ident_body(consume(lx))
    ELSE lx

\* Lexer::consume_ident_body: the token (or the panic of the slice) and the
\* lexer after it
consume_ident_body(lx, start_offset) ==
    LET after == consume_while_ident_body(lx)
        end_offset == after.offset
        data == StrSlice(src_file.content, start_offset, end_offset)
        span == Span(start_offset, end_offset - start_offset)
    IN IF data = Panic THEN [next |-> Panic, lexer |-> after]
       ELSE [next |-> [tag |-> "Token", token |-> IdentToken(data.val, span)],
             lexer |-> after]

\* unexpected with the offset counted from the start of the file
LexUnexpectedLocal(lx, c) ==
    [tag |-> "Unexpected", c |-> c, offset |-> lx.offset - src_file.start]

\* Lexer::unexpected
LexUnexpected(lx, c) == [tag |-> "Unexpected", c |-> c, offset |-> lx.offset]

\* Lexer::unexpected_eof
LexUnexpectedEof(lx) == [tag |-> "UnexpectedEof", offset |-> lx.offset]

\* emit with the span taken from the current offset, not from start_offset
emit_from_current(lx, start_offset, data) ==
    LET after == consume(lx)
        end_offset == after.offset
    IN [next |-> [tag |-> "Token",
                  token |-> Token(data, Span(lx.offset, end_offset - lx.offset))],
        lexer |-> after]

\* Lexer::emit
emit(lx, start_offset, data) ==
    LET after == consume(lx)
        end_offset == after.offset
    IN [next |-> [tag |-> "Token",
                  token |-> Token(data, Span(start_offset, end_offset - start_offset))],
        lexer |-> after]

\* Lexer::next_token: the NextToken returned and the lexer after the call
next_token(lx) ==
    LET start_offset == lx.offset
    IN IF lookahead(lx) = None THEN [next |-> [tag |-> "Done"], lexer |-> lx]
       ELSE LET c == lookahead(lx).val
            IN CASE c = "\n" -> emit(lx, start_offset, "Newline")
                 [] c = " " -> emit(lx, start_offset, "Space")
                 [] c = "\\" -> emit(lx, start_offset, "Backslash")
                 [] c = "-" ->
                      LET lx1 == consume(lx)
                      IN IF lookahead(lx1) = Some(">")
                         THEN emit(lx1, start_offset, "RArrow")
                         ELSE IF lookahead(lx1) # None
                         THEN [next |-> [tag |-> "Error",
                                         err |-> LexUnexpected(lx1, lookahead(lx1).val)],
                               lexer |-> lx1]
                         ELSE [next |-> [tag |-> "Error", err |-> LexUnexpectedEof(lx1)],
                               lexer |-> lx1]
                 [] c = "(" -> emit(lx, start_offset, "LParen")
                 [] c = ")" -> emit(lx, start_offset, "RParen")
                 [] c = "=" -> emit(lx, start_offset, "Equals")
                 [] OTHER ->
                      IF is_ident_start(c)
                      THEN consume_ident_body(consume(lx), start_offset)
                      ELSE [next |-> [tag |-> "Error", err |-> LexUnexpected(lx, c)],
                            lexer |-> lx]

\* the NextToken::Done arm of Lexer::tokenize
TokenizeDone ==
    /\ lex_result = None
    /\ LET nt == next_token(lexer)
       IN /\ nt.next.tag = "Done"
          /\ lexer' = nt.lexer
          /\ tokens' = Append(tokens, Token("Eof", Span(nt.lexer.offset, 1)))
          /\ lex_result' = Some(Ok(tokens'))
    /\ UNCHANGED src_file
    /\ lexerFrame

\* the NextToken::Token arm of Lexer::tokenize
TokenizeToken ==
    /\ lex_result = None
    /\ LET nt == next_token(lexer)
       IN /\ nt.next.tag = "Token"
          /\ lexer' = nt.lexer
          /\ tokens' = Append(tokens, nt.next.token)
    /\ UNCHANGED <<src_file, lex_result>>
    /\ lexerFrame

\* the NextToken::Error arm of Lexer::tokenize
TokenizeError ==
    /\ lex_result = None
    /\ LET nt == next_token(lexer)
       IN /\ nt.next.tag = "Error"
          /\ lexer' = nt.lexer
          /\ lex_result' = Some(Err(nt.next.err))
    /\ UNCHANGED <<src_file, tokens>>
    /\ lexerFrame

\* next_token panics (the slice of consume_ident_body): tokenize unwinds
TokenizePanic ==
    /\ lex_result = None
    /\ LET nt == next_token(lexer)
       IN /\ nt.next.tag = "Panic"
          /\ lexer' = nt.lexer
          /\ lex_result' = Some(Panic)
    /\ UNCHANGED <<src_file, tokens>>
    /\ lexerFrame

(***************************************************************************)
(* ast: the named Expr built by ExprBuilder                                *)
(***************************************************************************)
mk_ident(ident) == [tag |-> "Ident", name |-> ident]
mk_lam(arg, x) == [tag |-> "Lam", arg |-> arg, body |-> x]
mk_app(f, x) == [tag |-> "App", f |-> f, x |-> x]
mk_parens(inner) == [tag |-> "Parens", inner |-> inner]

RECURSIVE mk_apps(_, _)
\* ExprBuilder::mk_apps
mk_apps(f, xs) == IF xs = <<>> THEN f ELSE mk_apps(mk_app(f, Head(xs)), Tail(xs))

(***************************************************************************)
(* parser: Parser.  The parser is a record                                 *)
(*   input, position : the token vector and the tokens taken from its Iter *)
(*   current         : Option<&Token>                                      *)
(*   expected        : ExpectedSet, a set of token types                   *)
(*   follows         : Vec<ExpectedSet>                                    *)
(*   stack, ret      : the frames of the recursive descent (function,      *)
(*                     place in it, locals) and the value last returned    *)
(*   panicked        : current_token has panicked in this step             *)
(*   result          : what parse_expr_eof returned, None while it runs    *)
(*   tried           : history, the pairs <<position, tt>> of the calls of *)
(*                     expect so far                                       *)
(* The helpers below return the parser after the call and the call's       *)
(* value.                                                                  *)
(***************************************************************************)
EXPECTED_RPAREN == {"RParen"}
ATOM_START_SET == {"Ident", "LParen"}

\* Parser::new, and the call of parse_expr_eof on it
ParserNew(input) ==
    [input |-> input,
     position |-> IF input = <<>> THEN 0 ELSE 1,
     current |-> IF input = <<>> THEN None ELSE Some(input[1]),
     expected |-> {},
     follows |-> <<>>,
     stack |-> <<[fn |-> "parse_expr_eof", pc |-> "start"]>>,
     ret |-> None,
     panicked |-> FALSE,
     result |-> None,
     tried |-> {}]

\* Parser::current_token: panics when current is None
current_token(p) ==
    IF p.current = None
    THEN [p |-> [p EXCEPT !.panicked = TRUE], out |-> None]
    ELSE [p |-> p, out |-> p.current]

\* Parser::consume
Parser_consume(p) ==
    IF p.position < Len(p.input)
    THEN [p EXCEPT !.position = p.position + 1,
                   !.current = Some(p.input[p.position + 1])]
    ELSE [p EXCEPT !.current = None]

\* Parser::expect, after self.consume(), with expected left as it is
expect_consumed_kept(p) == p

\* Parser::expect, after self.consume(): expected is cleared on Some(_)
expect_consumed(p) ==
    IF p.current # None THEN [p EXCEPT !.expected = {}] ELSE p

\* Parser::expect, from let token = self.current_token()
expect_token(ct, tt) ==
    IF ct.p.panicked THEN ct
    ELSE IF token_type(ct.out.val) = tt
    THEN [p |-> expect_consumed(Parser_consume(ct.p)), out |-> ct.out]
    ELSE [p |-> ct.p, out |-> None]

\* expect without the insert of tt into expected
expect_no_insert(p, tt) ==
    expect_token(current_token(
        [p EXCEPT !.tried = p.tried \cup {<<p.position, tt>>}]), tt)

\* Parser::expect: Some(token) when the current token has type tt
expect(p, tt) ==
    expect_token(current_token(
        [p EXCEPT !.expected = p.expected \cup {tt},
                  !.tried = p.tried \cup {<<p.position, tt>>}]), tt)

\* Parser::unexpected_with, from let actual = self.current_token()
unexpected_actual(ct, extra) ==
    IF ct.p.panicked THEN ct
    ELSE [p |-> ct.p,
          out |-> Err([tag |-> "Unexpected", actual |-> ct.out.val,
                       expected |-> ct.p.expected \cup extra])]

\* Parser::unexpected_with
unexpected_with(p, extra) == unexpected_actual(current_token(p), extra)

\* Parser::unexpected
unexpected(p) == unexpected_with(p, {})

\* Parser::expect_ident, the and_then on the token expect returned
ident_of(e) ==
    IF e.out # None /\ e.out.val.data = "Ident"
    THEN [p |-> e.p, out |-> Some(e.out.val.text)]
    ELSE [p |-> e.p, out |-> None]

\* Parser::expect_ident
expect_ident(p) == ident_of(expect(p, "Ident"))

\* Parser::require and require_ident, the match on what expect returned
or_unexpected(e) ==
    IF e.out # None THEN [p |-> e.p, out |-> Ok(e.out.val)] ELSE unexpected(e.p)

\* Parser::require
require(p, tt) == or_unexpected(expect(p, tt))

\* Parser::require_ident
require_ident(p) == or_unexpected(expect_ident(p))

RECURSIVE ignore_spaces(_), ignore_if_space(_)
\* Parser::ignore_spaces
ignore_spaces(p) == ignore_if_space(current_token(p))

\* Parser::ignore_spaces, one round of the while let
ignore_if_space(ct) ==
    IF ct.p.panicked THEN ct.p
    ELSE IF ct.out.val.data \in {"Space", "Newline"}
    THEN ignore_spaces(Parser_consume(ct.p))
    ELSE ct.p

\* the push of with_follows!
follows_push(p, followed_by) ==
    [p EXCEPT !.follows = Append(p.follows, followed_by)]

\* the push of with_follows_extended!: the set united with the last follow set
follows_push_extended(p, followed_by) ==
    follows_push(p, IF p.follows = <<>> THEN followed_by
                    ELSE Last(p.follows) \cup followed_by)

\* the pop of with_follows! (Vec::pop)
follows_pop(p) ==
    IF p.follows = <<>> THEN p ELSE [p EXCEPT !.follows = Front(p.follows)]

\* a call: the caller's frame is left at place pc, the callee starts
Call(p, frame, fn) ==
    [p EXCEPT !.stack = Append(Append(Front(p.stack), frame),
                               [fn |-> fn, pc |-> "start"])]

\* a return (also the return of the ? operator): the value goes to the caller,
\* or is the result when parse_expr_eof itself returns
Return(p, value) ==
    [p EXCEPT !.stack = Front(p.stack),
              !.ret = value,
              !.result = IF Len(p.stack) = 1 THEN Some(value) ELSE None]

\* the return of the value a helper gave
ReturnOut(r) == Return(r.p, r.out)

TopFrame(p) == Last(p.stack)
At(p, fn, pc) ==
    /\ p # None /\ p.result = None /\ p.stack # <<>>
    /\ TopFrame(p).fn = fn /\ TopFrame(p).pc = pc

\* Parser::parse_expr_eof up to the call of parse_expr inside with_follows!
parse_expr_eof_start(p) ==
    Call(follows_push(p, {"Eof"}), [fn |-> "parse_expr_eof", pc |-> "after_expr"],
         "parse_expr")

\* parse_expr_eof requiring (and so consuming) the Eof token behind the
\* expression
parse_expr_eof_require_eof(p, eof) ==
    IF eof.out.tag = "Ok" THEN Return(eof.p, p.ret) ELSE ReturnOut(eof)

parse_expr_eof_after_expr_consuming(p) ==
    IF p.ret.tag = "Ok"
    THEN parse_expr_eof_require_eof(p, require(follows_pop(p), "Eof"))
    ELSE Return(follows_pop(p), p.ret)

\* Parser::parse_expr_eof from the return of parse_expr
parse_expr_eof_after_expr(p) == Return(follows_pop(p), p.ret)

\* Parser::parse_expr up to the call of try_parse_lam
parse_expr_start(p) ==
    Call(p, [fn |-> "parse_expr", pc |-> "after_lam"], "try_parse_lam")

\* Parser::parse_expr from the return of try_parse_lam
parse_expr_after_lam(p) ==
    IF p.ret.tag = "Err" THEN Return(p, p.ret)
    ELSE IF p.ret.val # None THEN Return(p, Ok(p.ret.val.val))
    ELSE Call(p, [fn |-> "parse_expr", pc |-> "after_app"], "try_parse_app")

\* Parser::parse_expr from the return of try_parse_app
parse_expr_after_app(p) ==
    IF p.ret.tag = "Err" THEN Return(p, p.ret)
    ELSE IF p.ret.val # None THEN Return(p, Ok(p.ret.val.val))
    ELSE ReturnOut(unexpected(p))

\* try_parse_lam without the ignore_spaces after the arrow
try_parse_lam_arrow_no_skip(arrow, arg) ==
    IF arrow.p.panicked THEN arrow.p
    ELSE IF arrow.out.tag = "Err" THEN ReturnOut(arrow)
    ELSE Call(arrow.p,
              [fn |-> "try_parse_lam", pc |-> "after_body", arg |-> arg],
              "parse_expr")

\* Parser::try_parse_lam from the value of require(&TokenType::RArrow)
try_parse_lam_arrow(arrow, arg) ==
    IF arrow.p.panicked THEN arrow.p
    ELSE IF arrow.out.tag = "Err" THEN ReturnOut(arrow)
    ELSE Call(ignore_spaces(arrow.p),
              [fn |-> "try_parse_lam", pc |-> "after_body", arg |-> arg],
              "parse_expr")

\* Parser::try_parse_lam from the value of require_ident()
try_parse_lam_arg(arg) ==
    IF arg.p.panicked THEN arg.p
    ELSE IF arg.out.tag = "Err" THEN ReturnOut(arg)
    ELSE try_parse_lam_arrow(require(ignore_spaces(arg.p), "RArrow"), arg.out.val)

\* Parser::try_parse_lam from the value of expect(&TokenType::Backslash)
try_parse_lam_backslash(e) ==
    IF e.out = None THEN Return(e.p, Ok(None))
    ELSE try_parse_lam_arg(require_ident(ignore_spaces(e.p)))

\* Parser::try_parse_lam up to the call of parse_expr for the body
try_parse_lam_start(p) == try_parse_lam_backslash(expect(p, "Backslash"))

\* Parser::try_parse_lam from the return of parse_expr
try_parse_lam_after_body(p) ==
    IF p.ret.tag = "Err" THEN Return(p, p.ret)
    ELSE Return(p, Ok(Some(mk_lam(TopFrame(p).arg, p.ret.val))))

\* Parser::try_parse_app, the call of try_parse_atom inside
\* with_follows_extended!, with the application built so far
try_parse_app_call_atom(p, pc, result) ==
    Call(follows_push_extended(p, ATOM_START_SET),
         [fn |-> "try_parse_app", pc |-> pc, result |-> result],
         "try_parse_atom")

\* Parser::try_parse_app up to the call of try_parse_atom for the head
try_parse_app_start(p) == try_parse_app_call_atom(p, "after_head", None)

\* Parser::try_parse_app from the return of try_parse_atom for the head (ret,
\* with the follow set popped) to the call of try_parse_atom in the first
\* round of the loop
try_parse_app_head(p, ret) ==
    IF ret.tag = "Err" THEN Return(p, ret)
    ELSE IF ret.val = None THEN Return(p, Ok(None))
    ELSE try_parse_app_call_atom(p, "after_atom", ret.val.val)

try_parse_app_after_head(p) == try_parse_app_head(follows_pop(p), p.ret)

\* the Ok(None) arm ending the application at any token that starts no atom
try_parse_app_no_atom_any_token(ct, result) ==
    IF ct.p.panicked THEN ct.p ELSE Return(ct.p, Ok(Some(result)))

\* the Ok(None) arm reporting expected alone, without the last follow set
try_parse_app_no_atom_no_follows(ct, result) ==
    IF ct.p.panicked THEN ct.p
    ELSE IF ct.p.follows = <<>> THEN ReturnOut(unexpected_with(ct.p, {}))
    ELSE IF token_type(ct.out.val) \in Last(ct.p.follows)
    THEN Return(ct.p, Ok(Some(result)))
    ELSE ReturnOut(unexpected_with(ct.p, {}))

\* Parser::try_parse_app, the Ok(None) arm of the loop: the current token
\* against the last follow set
try_parse_app_no_atom(ct, result) ==
    IF ct.p.panicked THEN ct.p
    ELSE IF ct.p.follows = <<>> THEN ReturnOut(unexpected_with(ct.p, {}))
    ELSE IF token_type(ct.out.val) \in Last(ct.p.follows)
    THEN Return(ct.p, Ok(Some(result)))
    ELSE ReturnOut(unexpected_with(ct.p, Last(ct.p.follows)))

\* the loop of try_parse_app building mk_app(expr, result)
try_parse_app_atom_swapped(p, ret, result) ==
    IF ret.tag = "Err" THEN Return(p, ret)
    ELSE IF ret.val = None THEN try_parse_app_no_atom(current_token(p), result)
    ELSE try_parse_app_call_atom(p, "after_atom", mk_app(ret.val.val, result))

\* Parser::try_parse_app, one round of the loop: from the return of
\* try_parse_atom (ret, with the follow set popped) to the next call of it,
\* or out of the function
try_parse_app_atom(p, ret, result) ==
    IF ret.tag = "Err" THEN Return(p, ret)
    ELSE IF ret.val = None THEN try_parse_app_no_atom(current_token(p), result)
    ELSE try_parse_app_call_atom(p, "after_atom", mk_app(result, ret.val.val))

try_parse_app_after_atom(p) ==
    try_parse_app_atom(follows_pop(p), p.ret, TopFrame(p).result)

\* Parser::try_parse_atom from the value of expect(&TokenType::LParen)
try_parse_atom_lparen(lp) ==
    IF lp.out = None THEN Return(lp.p, Ok(None))
    ELSE Call(follows_push(ignore_spaces(lp.p), EXPECTED_RPAREN),
              [fn |-> "try_parse_atom", pc |-> "after_inner"],
              "parse_expr")

\* Parser::try_parse_atom from the value of expect_ident()
try_parse_atom_ident(id) ==
    IF id.out # None
    THEN Return(ignore_spaces(id.p), Ok(Some(mk_ident(id.out.val))))
    ELSE try_parse_atom_lparen(expect(id.p, "LParen"))

\* Parser::try_parse_atom up to the call of parse_expr inside the parentheses
try_parse_atom_start(p) == try_parse_atom_ident(expect_ident(p))

\* Parser::try_parse_atom from the value of require(&TokenType::RParen)
try_parse_atom_rparen(rp, inner) ==
    IF rp.p.panicked THEN rp.p
    ELSE IF rp.out.tag = "Err" THEN ReturnOut(rp)
    ELSE Return(ignore_spaces(rp.p), Ok(Some(mk_parens(inner))))

\* Parser::try_parse_atom from the return of parse_expr (ret, with the follow
\* set popped)
try_parse_atom_inner(p, ret) ==
    IF ret.tag = "Err" THEN Return(p, ret)
    ELSE try_parse_atom_rparen(require(p, "RParen"), ret.val)

\* the ? inside the block of with_follows!: an Err returns before the pop
try_parse_atom_after_inner_early_return(p) ==
    try_parse_atom_inner(IF p.ret.tag = "Err" THEN p ELSE follows_pop(p), p.ret)

try_parse_atom_after_inner(p) == try_parse_atom_inner(follows_pop(p), p.ret)

\* the code of the current frame up to its next call or return
FrameStep(p, fn, pc) ==
    CASE fn = "parse_expr_eof" /\ pc = "start" -> parse_expr_eof_start(p)
      [] fn = "parse_expr_eof" /\ pc = "after_expr" -> parse_expr_eof_after_expr(p)
      [] fn = "parse_expr" /\ pc = "start" -> parse_expr_start(p)
      [] fn = "parse_expr" /\ pc = "after_lam" -> parse_expr_after_lam(p)
      [] fn = "parse_expr" /\ pc = "after_app" -> parse_expr_after_app(p)
      [] fn = "try_parse_lam" /\ pc = "start" -> try_parse_lam_start(p)
      [] fn = "try_parse_lam" /\ pc = "after_body" -> try_parse_lam_after_body(p)
      [] fn = "try_parse_app" /\ pc = "start" -> try_parse_app_start(p)
      [] fn = "try_parse_app" /\ pc = "after_head" -> try_parse_app_after_head(p)
      [] fn = "try_parse_app" /\ pc = "after_atom" -> try_parse_app_after_atom(p)
      [] fn = "try_parse_atom" /\ pc = "start" -> try_parse_atom_start(p)
      [] fn = "try_parse_atom" /\ pc = "after_inner" -> try_parse_atom_after_inner(p)

\* a panic of current_token ends the parse
Unwind(p, q) ==
    IF q.panicked THEN [p EXCEPT !.panicked = TRUE, !.result = Some(Panic)] ELSE q

\* one step of the parser
ParserStep(p) == Unwind(p, FrameStep(p, TopFrame(p).fn, TopFrame(p).pc))

RECURSIVE RunParser(_)
\* parse_expr_eof run to its return
RunParser(p) == IF p.result # None THEN p ELSE RunParser(ParserStep(p))

ParseExprEofStart ==
    At(parser, "parse_expr_eof", "start") /\ parser' = ParserStep(parser) /\ parserFrame
ParseExprEofAfterExpr ==
    At(parser, "parse_expr_eof", "after_expr") /\ parser' = ParserStep(parser) /\ parserFrame
ParseExprStart ==
    At(parser, "parse_expr", "start") /\ parser' = ParserStep(parser) /\ parserFrame
ParseExprAfterLam ==
    At(parser, "parse_expr", "after_lam") /\ parser' = ParserStep(parser) /\ parserFrame
ParseExprAfterApp ==
    At(parser, "parse_expr", "after_app") /\ parser' = ParserStep(parser) /\ parserFrame
TryParseLamStart ==
    At(parser, "try_parse_lam", "start") /\ parser' = ParserStep(parser) /\ parserFrame
TryParseLamAfterBody ==
    At(parser, "try_parse_lam", "after_body") /\ parser' = ParserStep(parser) /\ parserFrame
TryParseAppStart ==
    At(parser, "try_parse_app", "start") /\ parser' = ParserStep(parser) /\ parserFrame
TryParseAppAfterHead ==
    At(parser, "try_parse_app", "after_head") /\ parser' = ParserStep(parser) /\ parserFrame
TryParseAppAfterAtom ==
    At(parser, "try_parse_app", "after_atom") /\ parser' = ParserStep(parser) /\ parserFrame
TryParseAtomStart ==
    At(parser, "try_parse_atom", "start") /\ parser' = ParserStep(parser) /\ parserFrame
TryParseAtomAfterInner ==
    At(parser, "try_parse_atom", "after_inner") /\ parser' = ParserStep(parser) /\ parserFrame

(***************************************************************************)
(* ast::de_bruijn: Expr and from_ast.  var_map is a function from the      *)
(* identifiers that have an entry to their Vec<usize>.  __from_ast returns *)
(* the map it leaves behind and the term it built, or ends in a panic.     *)
(***************************************************************************)
Var(n) == [tag |-> "Var", n |-> n]
Lam(body) == [tag |-> "Lam", body |-> body]
App(l, r) == [tag |-> "App", l |-> l, r |-> r]
\* the variants of Expr that eval matches on
U64(n) == [tag |-> "U64", n |-> n]
AddU64(l, r) == [tag |-> "AddU64", l |-> l, r |-> r]

\* value[0] -= 1 at 0: a panic with overflow checks, usize::MAX without
Underflow == [tag |-> "Underflow"]

\* __from_ast, Lam: value[0] += 1 for every entry, then the entry of arg
lam_enter(var_map, arg) ==
    IF \E k \in DOMAIN var_map : var_map[k] = <<>> THEN Panic
    ELSE IF arg \in DOMAIN var_map
    THEN Ok([k \in DOMAIN var_map |->
               IF k = arg THEN Append([var_map[k] EXCEPT ![1] = @ + 1], 0)
               ELSE [var_map[k] EXCEPT ![1] = @ + 1]])
    ELSE Ok([k \in DOMAIN var_map \cup {arg} |->
               IF k = arg THEN <<0>> ELSE [var_map[k] EXCEPT ![1] = @ + 1]])

\* __from_ast, Lam: value[0] -= 1 for every entry
lam_decrement(var_map) ==
    IF \E k \in DOMAIN var_map : var_map[k] = <<>> THEN Panic
    ELSE IF \E k \in DOMAIN var_map : var_map[k][1] = 0 THEN Underflow
    ELSE Ok([k \in DOMAIN var_map |-> [var_map[k] EXCEPT ![1] = @ - 1]])

\* lam_exit that leaves the depths as they are
lam_exit_no_decrement(var_map, arg) ==
    IF arg \notin DOMAIN var_map THEN Ok(var_map)
    ELSE IF Len(var_map[arg]) <= 1
    THEN Ok([k \in DOMAIN var_map \ {arg} |-> var_map[k]])
    ELSE Ok([var_map EXCEPT ![arg] = Front(@)])

\* lam_exit that keeps the last entry of arg in the map
lam_exit_keep_entry(var_map, arg) ==
    IF arg \notin DOMAIN var_map THEN lam_decrement(var_map)
    ELSE IF Len(var_map[arg]) <= 1
    THEN Ok([k \in DOMAIN var_map |->
               IF k = arg THEN var_map[k] ELSE [var_map[k] EXCEPT ![1] = @ - 1]])
    ELSE lam_decrement([var_map EXCEPT ![arg] = Front(@)])

\* __from_ast, Lam: the entry of arg popped or removed, then the decrement
lam_exit(var_map, arg) ==
    IF arg \notin DOMAIN var_map THEN lam_decrement(var_map)
    ELSE IF Len(var_map[arg]) <= 1
    THEN lam_decrement([k \in DOMAIN var_map \ {arg} |-> var_map[k]])
    ELSE lam_decrement([var_map EXCEPT ![arg] = Front(@)])

\* the map __from_ast leaves and the term it returns
Lowered(var_map, e) ==
    IF var_map.tag = "Ok" THEN Ok([var_map |-> var_map.val, expr |-> e])
    ELSE var_map

RECURSIVE __from_ast(_, _), from_ast_app(_, _), from_ast_lam(_, _)

\* builder.mk_app of the two terms, r lowered under the map l has left
from_ast_app_r(l, r) ==
    IF r.tag # "Ok" THEN r
    ELSE Lowered(Ok(r.val.var_map), App(l, r.val.expr))

from_ast_app(l, r) ==
    IF l.tag # "Ok" THEN l
    ELSE from_ast_app_r(l.val.expr, __from_ast(l.val.var_map, r))

\* builder.mk_lam of the lowered body, and the way out of the binder
from_ast_lam_body(body, arg) ==
    IF body.tag # "Ok" THEN body
    ELSE Lowered(lam_exit(body.val.var_map, arg), Lam(body.val.expr))

from_ast_lam(entered, e) ==
    IF entered.tag # "Ok" THEN entered
    ELSE from_ast_lam_body(__from_ast(entered.val, e.body), e.arg)

__from_ast(var_map, e) ==
    CASE e.tag = "Parens" -> __from_ast(var_map, e.inner)
      [] e.tag = "Ident" ->
           IF e.name \notin DOMAIN var_map THEN Panic
           ELSE IF var_map[e.name] = <<>> THEN Panic
           ELSE Lowered(Ok(var_map), Var(Last(var_map[e.name])))
      [] e.tag = "App" -> from_ast_app(__from_ast(var_map, e.f), e.x)
      [] e.tag = "Lam" -> from_ast_lam(lam_enter(var_map, e.arg), e)

\* the term alone
from_ast_term(res) == IF res.tag = "Ok" THEN Ok(res.val.expr) ELSE res

from_ast(e) == from_ast_term(__from_ast([k \in {} |-> <<>>], e))

FromAst ==
    /\ syn_expr # None /\ lowered = None
    /\ lowered' = Some(from_ast(syn_expr))
    /\ UNCHANGED syn_expr
    /\ lowerFrame

(***************************************************************************)
(* eval: Value, Heap, eval and eval_loop.  A u64 is kept as four limbs of  *)
(* sixteen bits, the least significant first.  A heap is the sequence of   *)
(* the values allocated in it, and a reference to a value is its place in  *)
(* the heap.                                                               *)
(***************************************************************************)
LimbBase == 65536

u64(n) == <<n, 0, 0, 0>>
U64_MAX == <<LimbBase - 1, LimbBase - 1, LimbBase - 1, LimbBase - 1>>

RECURSIVE add_limbs(_, _, _)
\* the limbs of l + r, and the carry out of the last of them in the end
add_limbs(l, r, carry) ==
    IF l = <<>> THEN <<carry>>
    ELSE <<(Head(l) + Head(r) + carry) % LimbBase>>
         \o add_limbs(Tail(l), Tail(r), (Head(l) + Head(r) + carry) \div LimbBase)

\* l + r on u64: a panic with overflow checks, the sum modulo 2^64 without
add_u64(l, r) ==
    IF Last(add_limbs(l, r, 0)) = 1 /\ overflow_checks THEN Panic
    ELSE Ok(Front(add_limbs(l, r, 0)))

ValueU64(n) == [tag |-> "U64", n |-> n]
Closure(env, body) == [tag |-> "Closure", env |-> env, body |-> body]

\* eval as it returns: the heap it leaves, the reference it returns, the calls
\* it may still make
Evaluated(heap, ref, fuel) ==
    [tag |-> "Ok", heap |-> heap, ref |-> ref, fuel |-> fuel]
\* eval unwinding from a panic with this message
EvalPanic(heap, message) == [tag |-> "Panic", heap |-> heap, message |-> message]

\* the message of the panic of env[env.len() - n - 1] for n >= env.len(): of the
\* subtraction in a build with overflow checks, of the index in one without
VarOutOfBounds ==
    IF overflow_checks THEN "attempt to subtract with overflow"
    ELSE "index out of bounds"
\* eval has not returned within MaxSteps calls
OutOfFuel == [tag |-> "OutOfFuel"]

\* Heap::alloc in eval
eval_alloc(heap, val, fuel) == Evaluated(Append(heap, val), Len(heap) + 1, fuel)

RECURSIVE eval(_, _, _, _)

\* eval, AddU64: heap.alloc(Value::U64(l_n + r_n))
eval_add(sum, r) ==
    IF sum.tag = "Panic" THEN EvalPanic(r.heap, "attempt to add with overflow")
    ELSE eval_alloc(r.heap, ValueU64(sum.val), r.fuel)

\* eval, AddU64: match rvalue
eval_add_r(l_n, r) ==
    IF r.tag # "Ok" THEN r
    ELSE IF r.heap[r.ref].tag # "U64"
    THEN EvalPanic(r.heap, "eval failed: expected U64")
    ELSE eval_add(add_u64(l_n, r.heap[r.ref].n), r)

\* eval, AddU64: match lvalue
eval_add_l(l, env, r) ==
    IF l.tag # "Ok" THEN l
    ELSE IF l.heap[l.ref].tag # "U64"
    THEN EvalPanic(l.heap, "eval failed: expected U64")
    ELSE eval_add_r(l.heap[l.ref].n, eval(l.heap, env, r, l.fuel))

\* eval, App: the body under the closure's env with r_value pushed
eval_app_r(closure, r) ==
    IF r.tag # "Ok" THEN r
    ELSE eval(r.heap, Append(closure.env, r.ref), closure.body, r.fuel)

\* eval, App: match l_value
eval_app_l(l, env, r) ==
    IF l.tag # "Ok" THEN l
    ELSE IF l.heap[l.ref].tag # "Closure"
    THEN EvalPanic(l.heap, "eval failed: expected Closure")
    ELSE eval_app_r(l.heap[l.ref], eval(l.heap, env, r, l.fuel))

eval(heap, env, e, fuel) ==
    IF fuel = 0 THEN OutOfFuel
    ELSE CASE e.tag = "Var" ->
                IF e.n >= Len(env) THEN EvalPanic(heap, VarOutOfBounds)
                ELSE Evaluated(heap, env[Len(env) - e.n], fuel - 1)
           [] e.tag = "App" -> eval_app_l(eval(heap, env, e.l, fuel - 1), env, e.r)
           [] e.tag = "Lam" -> eval_alloc(heap, Closure(env, e.body), fuel - 1)
           [] e.tag = "U64" -> eval_alloc(heap, ValueU64(e.n), fuel - 1)
           [] e.tag = "AddU64" -> eval_add_l(eval(heap, env, e.l, fuel - 1), env, e.r)

\* Code and Cont of eval_loop
Input(e) == [tag |-> "Input", expr |-> e]
Output(value) == [tag |-> "Output", value |-> value]
AppL(env, r) == [tag |-> "AppL", env |-> env, r |-> r]
AppR(env, body) == [tag |-> "AppR", env |-> env, body |-> body]
AddU64L(env, r) == [tag |-> "AddU64L", env |-> env, r |-> r]
AddU64R(l) == [tag |-> "AddU64R", l |-> l]

\* eval_loop before the first turn of its loop; status is running, returned or
\* panicked, steps counts the turns taken
\* the head of a turn of the loop, as trace keeps it
Visited(code, cont) == [code |-> code, cont |-> cont]

\* trace is the history of the loop: the code and cont at the head of every
\* turn so far, the present one last
EvalLoopNew(e, max_steps) ==
    [code |-> Input(e), env |-> <<>>, cont |-> <<>>, heap |-> <<>>,
     status |-> "running", message |-> "", steps |-> 0, max_steps |-> max_steps,
     trace |-> <<Visited(Input(e), <<>>)>>]

\* one more turn of the loop
Turn(m) ==
    [m EXCEPT !.steps = @ + 1, !.trace = Append(@, Visited(m.code, m.cont))]
\* a panic! in a turn of the loop
Panicked(m, message) ==
    [status |-> "panicked", message |-> message, steps |-> m.steps + 1,
     max_steps |-> m.max_steps, trace |-> m.trace,
     code |-> m.code, env |-> m.env, cont |-> m.cont, heap |-> m.heap]

AtInput(tag) ==
    /\ machine # None /\ machine.status = "running" /\ machine.steps < machine.max_steps
    /\ machine.code.tag = "Input" /\ machine.code.expr.tag = tag

\* the code is Output(value) and cont.pop() is a frame of this tag
AtOutput(tag) ==
    /\ machine # None /\ machine.status = "running" /\ machine.steps < machine.max_steps
    /\ machine.code.tag = "Output" /\ machine.cont # <<>>
    /\ Last(machine.cont).tag = tag

evalLoopFrame == UNCHANGED <<expr, eval_result>> /\ evalFrame

InputU64 ==
    /\ AtInput("U64")
    /\ machine' = Turn([machine EXCEPT
            !.code = Output(Len(machine.heap) + 1),
            !.heap = Append(@, ValueU64(machine.code.expr.n))])
    /\ evalLoopFrame

\* Input(Var) reading the env from its bottom
InputVarFromBottom ==
    /\ AtInput("Var")
    /\ machine' = IF machine.code.expr.n >= Len(machine.env)
                  THEN Panicked(machine, VarOutOfBounds)
                  ELSE Turn([machine EXCEPT !.code =
                          Output(machine.env[machine.code.expr.n + 1])])
    /\ evalLoopFrame

InputVar ==
    /\ AtInput("Var")
    /\ machine' = IF machine.code.expr.n >= Len(machine.env)
                  THEN Panicked(machine, VarOutOfBounds)
                  ELSE Turn([machine EXCEPT !.code =
                          Output(machine.env[Len(machine.env) - machine.code.expr.n])])
    /\ evalLoopFrame

\* Input(App) going into the right operand first
InputAppRightFirst ==
    /\ AtInput("App")
    /\ machine' = Turn([machine EXCEPT
            !.code = Input(machine.code.expr.r),
            !.cont = Append(@, AppL(machine.env, machine.code.expr.l))])
    /\ evalLoopFrame

InputApp ==
    /\ AtInput("App")
    /\ machine' = Turn([machine EXCEPT
            !.code = Input(machine.code.expr.l),
            !.cont = Append(@, AppL(machine.env, machine.code.expr.r))])
    /\ evalLoopFrame

\* Input(Lam) allocating a closure over an empty env
InputLamEmptyEnv ==
    /\ AtInput("Lam")
    /\ machine' = Turn([machine EXCEPT
            !.code = Output(Len(machine.heap) + 1),
            !.heap = Append(@, Closure(<<>>, machine.code.expr.body))])
    /\ evalLoopFrame

InputLam ==
    /\ AtInput("Lam")
    /\ machine' = Turn([machine EXCEPT
            !.code = Output(Len(machine.heap) + 1),
            !.heap = Append(@, Closure(machine.env, machine.code.expr.body))])
    /\ evalLoopFrame

InputAddU64 ==
    /\ AtInput("AddU64")
    /\ machine' = Turn([machine EXCEPT
            !.code = Input(machine.code.expr.l),
            !.cont = Append(@, AddU64L(machine.env, machine.code.expr.r))])
    /\ evalLoopFrame

\* cont.pop() is None: return value
OutputReturn ==
    /\ machine # None /\ machine.status = "running" /\ machine.steps < machine.max_steps
    /\ machine.code.tag = "Output" /\ machine.cont = <<>>
    /\ machine' =
         IF machine.code.tag = "Input"
         THEN Panicked(machine, "eval_loop failed: no output to return")
         ELSE Turn([machine EXCEPT !.status = "returned"])
    /\ evalLoopFrame

\* Output with AppL on top, the right operand entered under the env of the moment
OutputAppLCurrentEnv ==
    /\ AtOutput("AppL")
    /\ machine' =
         IF machine.heap[machine.code.value].tag # "Closure"
         THEN Panicked([machine EXCEPT !.cont = Front(@)],
                       "eval_loop failed: Expected closure")
         ELSE Turn([machine EXCEPT
                 !.code = Input(Last(machine.cont).r),
                 !.cont = Append(Front(@),
                                 AppR(machine.heap[machine.code.value].env,
                                      machine.heap[machine.code.value].body))])
    /\ evalLoopFrame

OutputAppL ==
    /\ AtOutput("AppL")
    /\ machine' =
         IF machine.heap[machine.code.value].tag # "Closure"
         THEN Panicked([machine EXCEPT !.cont = Front(@)],
                       "eval_loop failed: Expected closure")
         ELSE Turn([machine EXCEPT
                 !.code = Input(Last(machine.cont).r),
                 !.env = Last(machine.cont).env,
                 !.cont = Append(Front(@),
                                 AppR(machine.heap[machine.code.value].env,
                                      machine.heap[machine.code.value].body))])
    /\ evalLoopFrame

\* Output with AppR on top, a body that is a Lam entered at its own body
OutputAppRInner ==
    /\ AtOutput("AppR")
    /\ machine' = Turn([machine EXCEPT
            !.env = Append(Last(machine.cont).env, machine.code.value),
            !.code = Input(IF Last(machine.cont).body.tag = "Lam"
                           THEN Last(machine.cont).body.body
                           ELSE Last(machine.cont).body),
            !.cont = Front(@)])
    /\ evalLoopFrame

\* Output with AppR on top, the argument pushed on the env of the moment
OutputAppRCurrentEnv ==
    /\ AtOutput("AppR")
    /\ machine' = Turn([machine EXCEPT
            !.env = Append(machine.env, machine.code.value),
            !.code = Input(Last(machine.cont).body),
            !.cont = Front(@)])
    /\ evalLoopFrame

OutputAppR ==
    /\ AtOutput("AppR")
    /\ machine' = Turn([machine EXCEPT
            !.env = Append(Last(machine.cont).env, machine.code.value),
            !.code = Input(Last(machine.cont).body),
            !.cont = Front(@)])
    /\ evalLoopFrame

\* Output with AddU64L on top, the frame under it popped as well
OutputAddU64LPopTwo ==
    /\ AtOutput("AddU64L")
    /\ machine' =
         IF machine.heap[machine.code.value].tag # "U64"
         THEN Panicked([machine EXCEPT !.cont = Front(@)],
                       "eval_loop failed: Expected u64")
         ELSE Turn([machine EXCEPT
                 !.code = Input(Last(machine.cont).r),
                 !.env = Last(machine.cont).env,
                 !.cont = Append(Front(Front(@)),
                                 AddU64R(machine.heap[machine.code.value].n))])
    /\ evalLoopFrame

OutputAddU64L ==
    /\ AtOutput("AddU64L")
    /\ machine' =
         IF machine.heap[machine.code.value].tag # "U64"
         THEN Panicked([machine EXCEPT !.cont = Front(@)],
                       "eval_loop failed: Expected u64")
         ELSE Turn([machine EXCEPT
                 !.code = Input(Last(machine.cont).r),
                 !.env = Last(machine.cont).env,
                 !.cont = Append(Front(@),
                                 AddU64R(machine.heap[machine.code.value].n))])
    /\ evalLoopFrame

\* the turn of AddU64R with the frame left on cont
output_add_u64_r_no_pop(m, sum) ==
    IF sum.tag = "Panic"
    THEN Panicked([m EXCEPT !.cont = Front(@)], "attempt to add with overflow")
    ELSE Turn([m EXCEPT !.code = Output(Len(m.heap) + 1),
                        !.heap = Append(@, ValueU64(sum.val))])

\* the turn of AddU64R from the value of l + r
output_add_u64_r(m, sum) ==
    IF sum.tag = "Panic"
    THEN Panicked([m EXCEPT !.cont = Front(@)], "attempt to add with overflow")
    ELSE Turn([m EXCEPT !.code = Output(Len(m.heap) + 1),
                        !.heap = Append(@, ValueU64(sum.val)),
                        !.cont = Front(@)])

OutputAddU64R ==
    /\ AtOutput("AddU64R")
    /\ machine' =
         IF machine.heap[machine.code.value].tag # "U64"
         THEN Panicked([machine EXCEPT !.cont = Front(@)],
                       "eval_loop failed: Expected u64")
         ELSE output_add_u64_r(machine,
                               add_u64(Last(machine.cont).l,
                                       machine.heap[machine.code.value].n))
    /\ evalLoopFrame

\* eval(&heap, &Vec::new(), expr) on a heap of its own, once eval_loop is over
Eval ==
    /\ machine # None /\ eval_result = None
    /\ machine.status # "running" \/ machine.steps = machine.max_steps
    /\ eval_result' = Some(eval(<<>>, <<>>, expr, machine.max_steps))
    /\ UNCHANGED <<expr, machine>>
    /\ evalFrame

(***************************************************************************)
(* errors: Highlight, Error and the report.  A text is a sequence of       *)
(* pieces: the characters of a source line one by one, a fixed text of the *)
(* code as one piece.                                                      *)
(***************************************************************************)
HighlightPoint(offset) == [tag |-> "Point", offset |-> offset]
HighlightSpan(span) == [tag |-> "Span", span |-> span]

\* Highlight::start
Highlight_start(region) ==
    IF region.tag = "Point" THEN region.offset ELSE region.span.start

\* errors::Error
Error(region, message) == [highlight |-> region, message |-> message]

\* a - b on usize: a panic in a build with overflow checks when b > a, else the
\* wrapped difference, for which the negative number stands (an offset near
\* 2^64 that no position of a line reaches)
usize_sub(a, b) == IF a < b /\ overflow_checks THEN Panic ELSE Ok(a - b)

RECURSIVE highlight_point(_, _, _)
\* highlight, the loop of the Highlight::Point arm
highlight_point(chars, offset, pos) ==
    IF chars = <<>> THEN <<>>
    ELSE IF pos = offset THEN <<"^">>
    ELSE <<" ">> \o highlight_point(Tail(chars), offset, pos + len_utf8(Head(chars)))

RECURSIVE highlight_span(_, _, _, _, _)
\* highlight, the loop of the Highlight::Span arm
highlight_span(chars, start_offset, end_offset, pos, in_range) ==
    IF chars = <<>> THEN <<>>
    ELSE IF in_range
    THEN IF pos = end_offset THEN <<>>
         ELSE <<"^">> \o highlight_span(Tail(chars), start_offset, end_offset,
                                        pos + len_utf8(Head(chars)), TRUE)
    ELSE IF pos = start_offset
    THEN <<"^">> \o highlight_span(Tail(chars), start_offset, end_offset,
                                   pos + len_utf8(Head(chars)), TRUE)
    ELSE <<" ">> \o highlight_span(Tail(chars), start_offset, end_offset,
                                   pos + len_utf8(Head(chars)), FALSE)

\* errors::highlight: the string, or the panic of a subtraction.  The Span arm
\* subtracts inside the loop, so not at all on an empty line.
highlight(content, line_offset, region) ==
    IF region.tag = "Point"
    THEN IF usize_sub(region.offset, line_offset) = Panic THEN Panic
         ELSE Ok(highlight_point(content, region.offset - line_offset, 0))
    ELSE IF content = <<>> THEN Ok(<<>>)
    ELSE IF \/ usize_sub(region.span.start, line_offset) = Panic
            \/ usize_sub(SpanEnd(region.span), line_offset) = Panic
    THEN Panic
    ELSE Ok(highlight_span(content, region.span.start - line_offset,
                           SpanEnd(region.span) - line_offset, 0, FALSE))

(***************************************************************************)
(* eval::stack: Stack, a buffer of references with a size and a capacity.  *)
(* A usize is held as the isize the code casts it to (size as isize), so   *)
(* that -1 is usize::MAX.  A slot is a place of one reference counted from *)
(* the start of the buffer; the slots that lie in the allocation are the   *)
(* entries of buffer.  A read of a slot outside the allocation, or of one  *)
(* never written, is undefined: any value may come back.  pushed is the    *)
(* history of the stack: the values pushed and not yet popped.             *)
(***************************************************************************)
\* std::mem::size_of::<&Value>() and align_of on a 64-bit target
PointerBytes == 8

\* a slot that was never written
Uninit == "uninit"

\* the references that are pushed (the test's U64(999), U64(10), U64(42))
StackValues == {"U64(999)", "U64(10)", "U64(42)"}

\* Stack::with_capacity: capacity is size_bytes in items rounded up, and the
\* Layout asks for that many bytes
Stack_with_capacity(size_bytes) ==
    LET size_items == (size_bytes \div PointerBytes)
                      + (IF size_bytes % PointerBytes = 0 THEN 0 ELSE 1)
    IN [capacity |-> size_items,
        size |-> 0,
        buffer |-> [i \in 1..(size_items \div PointerBytes) |-> Uninit],
        panicked |-> FALSE, ops |-> 0, pushed |-> <<>>]

\* *self.buffer.offset(slot): what the read may give
StackRead(st, slot) ==
    IF 0 <= slot /\ slot < Len(st.buffer) /\ st.buffer[slot + 1] # Uninit
    THEN {st.buffer[slot + 1]}
    ELSE StackValues

\* *self.buffer.offset(slot) = val
StackWrite(st, slot, val) ==
    IF 0 <= slot /\ slot < Len(st.buffer)
    THEN [st.buffer EXCEPT ![slot + 1] = val]
    ELSE st.buffer

\* what an operation returned
StackOut(op, ix, val) == [op |-> op, ix |-> ix, val |-> val]

stackFrame == UNCHANGED <<next_addr, files, lookup, returned, line, stdout,
                          exit_code, src_file, lexer, tokens, lex_result, parser,
                          syn_expr, lowered, overflow_checks, expr, machine,
                          eval_result, highlightVars>>

StackReady ==
    value_stack # None /\ ~value_stack.panicked /\ value_stack.ops < MaxStackOps

\* Stack::push
Stack_push(val) ==
    /\ StackReady
    /\ IF value_stack.size = value_stack.capacity
       THEN /\ value_stack' = [value_stack EXCEPT !.panicked = TRUE, !.ops = @ + 1]
            /\ stack_out' = StackOut("push", 0, Panic)
       ELSE /\ value_stack' = [value_stack EXCEPT
                   !.buffer = StackWrite(value_stack, value_stack.size, val),
                   !.size = @ + 1,
                   !.ops = @ + 1,
                   !.pushed = Append(@, val)]
            /\ stack_out' = StackOut("push", 0, None)
    /\ stackFrame

\* Stack::pop: self.size -= 1 panics at 0 in a build with overflow checks
Stack_pop ==
    /\ StackReady
    /\ IF value_stack.size = 0 /\ overflow_checks
       THEN /\ value_stack' = [value_stack EXCEPT !.panicked = TRUE, !.ops = @ + 1]
            /\ stack_out' = StackOut("pop", 0, Panic)
       ELSE /\ value_stack' = [value_stack EXCEPT
                   !.size = @ - 1,
                   !.ops = @ + 1,
                   !.pushed = IF @ = <<>> THEN @ ELSE Front(@)]
            /\ \E val \in StackRead(value_stack, value_stack.size - 1) :
                  stack_out' = StackOut("pop", 0, Some(val))
    /\ stackFrame

\* Stack::peek
Stack_peek ==
    /\ StackReady
    /\ value_stack' = [value_stack EXCEPT !.ops = @ + 1]
    /\ \E val \in StackRead(value_stack, value_stack.size - 1) :
          stack_out' = StackOut("peek", 0, Some(val))
    /\ stackFrame

\* Index::index
Stack_index(ix) ==
    /\ StackReady
    /\ value_stack' = [value_stack EXCEPT !.ops = @ + 1]
    /\ \E val \in StackRead(value_stack, value_stack.size - ix - 1) :
          stack_out' = StackOut("index", ix, Some(val))
    /\ stackFrame

\* the walk of an iterator whose count is usize::MAX or near it leaves the
\* address space before it ends
Fault == [tag |-> "Fault"]

\* the items an iterator may yield when it reads slots in this order
IterReads(st, slots) ==
    {items \in [1..Len(slots) -> StackValues] :
        \A i \in 1..Len(slots) : items[i] \in StackRead(st, slots[i])}

\* Stack::iter_from_top, run to its end: IterFromTop::next decrements
\* remaining before the read, until remaining is 0
Stack_iter_from_top ==
    /\ StackReady
    /\ value_stack' = [value_stack EXCEPT !.ops = @ + 1]
    /\ IF value_stack.size < 0
       THEN stack_out' = StackOut("iter_from_top", <<>>, Fault)
       ELSE \E items \in IterReads(value_stack, [i \in 1..value_stack.size |->
                                                    value_stack.size - i]) :
               stack_out' = StackOut("iter_from_top",
                                     [i \in 1..value_stack.size |-> value_stack.size - i],
                                     Some(items))
    /\ stackFrame

\* Stack::iter_from_bottom, run to its end: IterFromBottom::next increments
\* current before the read, until current == size
Stack_iter_from_bottom ==
    /\ StackReady
    /\ value_stack' = [value_stack EXCEPT !.ops = @ + 1]
    /\ IF value_stack.size < 0
       THEN stack_out' = StackOut("iter_from_bottom", <<>>, Fault)
       ELSE \E items \in IterReads(value_stack, [i \in 1..value_stack.size |-> i]) :
               stack_out' = StackOut("iter_from_bottom",
                                     [i \in 1..value_stack.size |-> i], Some(items))
    /\ stackFrame

(***************************************************************************)
(* benchmark: the expression that main evaluates                           *)
(***************************************************************************)
\* \n -> \c -> n
benchmark_nil == Lam(Lam(Var(1)))

\* \a -> \b -> \n -> \c -> c a (b n c)
benchmark_cons ==
    Lam(Lam(Lam(Lam(App(App(Var(0), Var(3)),
                        App(App(Var(2), Var(1)), Var(0)))))))

\* cons 0 (cons 1 (cons 2 (cons 3 (cons 4 (cons 5 nil)))))
benchmark_zero_to_5 ==
    App(App(benchmark_cons, U64(u64(0))),
    App(App(benchmark_cons, U64(u64(1))),
    App(App(benchmark_cons, U64(u64(2))),
    App(App(benchmark_cons, U64(u64(3))),
    App(App(benchmark_cons, U64(u64(4))),
    App(App(benchmark_cons, U64(u64(5))),
        benchmark_nil))))))

\* zero_to_5 0 (\a -> \b -> a + b)
build_eval_expr ==
    App(App(benchmark_zero_to_5, U64(u64(0))),
        Lam(Lam(AddU64(Var(1), Var(0)))))

highlightFrame == UNCHANGED <<next_addr, files, lookup, returned, line, stdout,
                              exit_code, src_file, lexer, tokens, lex_result,
                              parser, syn_expr, lowered, overflow_checks, expr,
                              machine, eval_result, stackVars>>

\* a call of errors::highlight with the arguments of highlight_call
HighlightCall ==
    /\ highlight_call # None /\ highlighted = None
    /\ highlighted' = Some(highlight(highlight_call.line, highlight_call.line_offset,
                                     highlight_call.region))
    /\ UNCHANGED highlight_call
    /\ highlightFrame

DecimalDigits == <<"0", "1", "2", "3", "4", "5", "6", "7", "8", "9">>

RECURSIVE to_string(_)
\* u32::to_string
to_string(n) ==
    IF n < 10 THEN <<DecimalDigits[n + 1]>>
    ELSE Append(to_string(n \div 10), DecimalDigits[(n % 10) + 1])

\* line_number_padding: a space for each character of the line number
line_number_padding(number_string) == [i \in 1..Len(number_string) |-> " "]

\* the five strings of __build_report
report_lines(file, error, ln, hl) ==
    <<<<file.name, "\n">>,
      line_number_padding(to_string(ln.number)) \o <<" |", "\n">>,
      to_string(ln.number) \o <<" | ">> \o ln.content \o <<"\n">>,
      line_number_padding(to_string(ln.number)) \o <<" | ">> \o hl \o <<"\n">>,
      error.message \o <<"\n">> >>

\* __build_report from the highlight on
build_report_highlight(file, error, ln, hl) ==
    IF hl = Panic THEN Panic ELSE Ok(report_lines(file, error, ln, hl.val))

\* __build_report from get_line on
build_report_line(file, error, ln) ==
    IF ln = Panic THEN Panic
    ELSE build_report_highlight(file, error, ln.val,
             highlight(ln.val.content, ln.val.offset, error.highlight))

\* __build_report: the outcomes the call can have, the five strings or a
\* panic (of get_by_offset, get_line or highlight)
build_report(error) ==
    {IF res = Panic THEN Panic
     ELSE build_report_line(files[res.val + 1], error,
              get_line(files[res.val + 1], Highlight_start(error.highlight)))
     : res \in GetByOffsetResults(Highlight_start(error.highlight))}

\* lexer::Error::reportable
lexer_reportable(err) ==
    IF err.tag = "Unexpected"
    THEN Error(HighlightPoint(err.offset), <<"Unexpected symbol '", err.c, "'">>)
    ELSE Error(HighlightPoint(err.offset), <<"Unexpected end of input">>)

\* Display for TokenType
TokenTypeDisplay(tt) ==
    CASE tt = "Space" -> "' '"
      [] tt = "Newline" -> "newline"
      [] tt = "Backslash" -> "'\\'"
      [] tt = "Ident" -> "identifier"
      [] tt = "RArrow" -> "'->'"
      [] tt = "LParen" -> "'('"
      [] tt = "RParen" -> "')'"
      [] tt = "Equals" -> "'='"
      [] tt = "Eof" -> "end of input"

\* TokenType::to_usize, as the order of the token types
TokenTypeOrder ==
    <<"Space", "Newline", "Backslash", "Ident", "RArrow", "LParen", "RParen",
      "Equals", "Eof">>

RECURSIVE ExpectedSetDisplay(_, _)
\* Display for ExpectedSet: the token types from the i-th on that are in the
\* set, in the order of to_usize, ", " between two of them
ExpectedSetDisplay(expected, i) ==
    IF i > Len(TokenTypeOrder) THEN <<>>
    ELSE IF TokenTypeOrder[i] \notin expected THEN ExpectedSetDisplay(expected, i + 1)
    ELSE IF \E j \in (i + 1)..Len(TokenTypeOrder) : TokenTypeOrder[j] \in expected
    THEN <<TokenTypeDisplay(TokenTypeOrder[i]), ", ">>
             \o ExpectedSetDisplay(expected, i + 1)
    ELSE <<TokenTypeDisplay(TokenTypeOrder[i])>>

\* parser::Error::reportable
parser_reportable(err) ==
    IF err.tag = "UnexpectedEof"
    THEN Error(HighlightPoint(err.offset), <<"Unexpected end of input">>)
    ELSE Error(HighlightSpan(err.actual.span),
               <<"Unexpected ", TokenTypeDisplay(token_type(err.actual)),
                 ", expecting one of: ">> \o ExpectedSetDisplay(err.expected, 1))

(***************************************************************************)
(* compiler: run and main, from the tokenize call on.                      *)
(***************************************************************************)
mainFrame == UNCHANGED <<next_addr, files, lookup, returned, line, src_file,
                         lexer, tokens, lex_result, parser, syn_expr, lowered,
                         overflow_checks, expr, machine, eval_result, highlightVars,
    stackVars>>

\* Error::report and the return of false, or the panic of __build_report: the
\* process ends with code 1, or with the code 101 of a panic
Report(outcome) ==
    IF outcome = Panic
    THEN stdout' = stdout /\ exit_code' = Some(101)
    ELSE stdout' = stdout \o outcome.val /\ exit_code' = Some(1)

\* run: lexer.tokenize() returned Err
MainLexErr ==
    /\ exit_code = None
    /\ lex_result # None /\ lex_result.val.tag = "Err"
    /\ \E outcome \in build_report(lexer_reportable(lex_result.val.err)) :
          Report(outcome)
    /\ mainFrame

\* run: lexer.tokenize() returned Ok, Parser::new(&tokens)
MainParserNew ==
    /\ exit_code = None
    /\ lex_result # None /\ lex_result.val.tag = "Ok"
    /\ parser = None
    /\ parser' = ParserNew(lex_result.val.val)
    /\ parserFrame

\* run: parser.parse_expr_eof() returned Err
MainParseErr ==
    /\ exit_code = None
    /\ parser # None /\ parser.result # None /\ parser.result.val.tag = "Err"
    /\ \E outcome \in build_report(parser_reportable(parser.result.val.err)) :
          Report(outcome)
    /\ mainFrame

\* run: parser.parse_expr_eof() returned Ok, run returns true
MainParseOk ==
    /\ exit_code = None
    /\ parser # None /\ parser.result # None /\ parser.result.val.tag = "Ok"
    /\ exit_code' = Some(0)
    /\ UNCHANGED stdout
    /\ mainFrame

(***************************************************************************)
(* The idle values of each component's variables.                          *)
(***************************************************************************)
FilesIdle ==
    next_addr = 0 /\ files = <<>> /\ lookup = None /\ returned = None /\ line = None
MainIdle == stdout = <<>> /\ exit_code = None
LexerIdle == src_file = None /\ lexer = None /\ tokens = <<>> /\ lex_result = None
ParserIdle == parser = None
LowerIdle == syn_expr = None /\ lowered = None
EvalIdle ==
    overflow_checks = FALSE /\ expr = None /\ machine = None /\ eval_result = None
HighlightIdle == highlight_call = None /\ highlighted = None
StackIdle == value_stack = None /\ stack_out = None

(***************************************************************************)
(* SpecFiles: a registry, any sequence of new_source_file and              *)
(* get_by_offset calls.                                                    *)
(***************************************************************************)
InitFiles ==
    /\ NewSourceFiles
    /\ line = None
    /\ MainIdle /\ LexerIdle /\ ParserIdle /\ LowerIdle /\ EvalIdle
    /\ HighlightIdle /\ StackIdle

NextFiles ==
    \/ \E name \in FileNames, content \in FileContents :
          NewSourceFile(name, content)
    \/ \E offset \in 0..next_addr : GetByOffset(offset)

SpecFiles == InitFiles /\ [][NextFiles]_vars

(***************************************************************************)
(* SpecLine: SourceFile::get_line on a file of any content, at any offset  *)
(* from the start of the file up to its end.                               *)
(***************************************************************************)
LineChars == {"a", "\n", TwoByteChar}
FileStarts == {0, 2}

InitLine ==
    /\ src_file \in {SourceFile("test", start, content) :
                        start \in FileStarts, content \in SeqsUpTo(LineChars, MaxSrcLen)}
    /\ lexer = None /\ tokens = <<>> /\ lex_result = None
    /\ FilesIdle /\ MainIdle /\ ParserIdle /\ LowerIdle /\ EvalIdle
    /\ HighlightIdle /\ StackIdle

NextLine ==
    \E offset \in src_file.start..(src_file.start + ByteLen(src_file.content)) :
        GetLine(offset)

SpecLine == InitLine /\ [][NextLine]_vars

(***************************************************************************)
(* SpecMain: a run of the compiler on a file of any content.  The first    *)
(* state is the one after load_source_file, get_by_name and                *)
(* Lexer::from_source_file: the file is the only one of the registry, at   *)
(* offset 0, where the slice of consume_ident_body is in range.            *)
(***************************************************************************)
MainChars == {"a", "\n", "\\", "-", ">", "("}

InitMain ==
    /\ \E content \in SeqsUpTo(MainChars, MaxMainLen) :
          /\ files = <<SourceFile("test", 0, content)>>
          /\ next_addr = ByteLen(content)
    /\ lookup = None /\ returned = Some(0) /\ line = None
    /\ src_file = files[1]
    /\ lexer = from_source_file
    /\ tokens = <<>>
    /\ lex_result = None
    /\ overflow_checks \in BOOLEAN
    /\ expr = None /\ machine = None /\ eval_result = None
    /\ MainIdle /\ ParserIdle /\ LowerIdle
    /\ HighlightIdle /\ StackIdle

NextMain ==
    \/ TokenizeDone
    \/ TokenizeToken
    \/ TokenizeError
    \/ MainLexErr
    \/ MainParserNew
    \/ ParseExprEofStart
    \/ ParseExprEofAfterExpr
    \/ ParseExprStart
    \/ ParseExprAfterLam
    \/ ParseExprAfterApp
    \/ TryParseLamStart
    \/ TryParseLamAfterBody
    \/ TryParseAppStart
    \/ TryParseAppAfterHead
    \/ TryParseAppAfterAtom
    \/ TryParseAtomStart
    \/ TryParseAtomAfterInner
    \/ MainParseErr
    \/ MainParseOk

SpecMain == InitMain /\ [][NextMain]_vars

(***************************************************************************)
(* SpecLexer: Lexer::from_source_file(src_file).tokenize() on a file of    *)
(* any content, registered at offset 0 or behind another file.             *)
(***************************************************************************)
SrcChars == {" ", "\n", "\\", "-", ">", "(", ")", "=", "a", "Z", TwoByteChar}

InitLexer ==
    /\ src_file \in {SourceFile("test", start, content) :
                        start \in FileStarts, content \in SeqsUpTo(SrcChars, MaxSrcLen)}
    /\ lexer = from_source_file
    /\ tokens = <<>>
    /\ lex_result = None
    /\ FilesIdle /\ MainIdle /\ ParserIdle /\ LowerIdle /\ EvalIdle
    /\ HighlightIdle /\ StackIdle

NextLexer ==
    \/ TokenizeDone
    \/ TokenizeToken
    \/ TokenizeError
    \/ TokenizePanic

SpecLexer == InitLexer /\ [][NextLexer]_vars

(***************************************************************************)
(* SpecParser: Parser::new(&builder, &input).parse_expr_eof() on any       *)
(* Eof-terminated token vector.  The i-th token's span follows the spans   *)
(* before it; an Ident token carries a one-letter text of its own, so that *)
(* every identifier of the tree is told from the others.                   *)
(***************************************************************************)
TokenTypes ==
    {"Space", "Newline", "Backslash", "Ident", "RArrow", "LParen", "RParen",
     "Equals", "Eof"}
IdentLetters == <<"a", "b", "c", "d", "e", "f", "g", "h", "i", "j">>

TokenLength(tt) == IF tt = "RArrow" THEN 2 ELSE 1

RECURSIVE TokenStart(_, _)
TokenStart(tts, i) ==
    IF i = 1 THEN 0 ELSE TokenStart(tts, i - 1) + TokenLength(tts[i - 1])

MkTokens(tts) ==
    [i \in 1..Len(tts) |->
        LET span == Span(TokenStart(tts, i), TokenLength(tts[i]))
        IN IF tts[i] = "Ident" THEN IdentToken(<<IdentLetters[i]>>, span)
           ELSE Token(tts[i], span)]

\* Equals and Newline are left out of the inputs: no rule of the parser names
\* Equals (a token that fits nowhere is there in RArrow, Backslash and RParen),
\* and Newline is read by the one match arm that reads Space
ParserInputTypes == TokenTypes \ {"Eof", "Equals", "Newline"}
ParserInputs ==
    {MkTokens(Append(tts, "Eof")) : tts \in SeqsUpTo(ParserInputTypes, MaxTokens)}

InitParser ==
    /\ parser \in {ParserNew(input) : input \in ParserInputs}
    /\ FilesIdle /\ MainIdle /\ LexerIdle /\ LowerIdle /\ EvalIdle
    /\ HighlightIdle /\ StackIdle

NextParser ==
    \/ ParseExprEofStart
    \/ ParseExprEofAfterExpr
    \/ ParseExprStart
    \/ ParseExprAfterLam
    \/ ParseExprAfterApp
    \/ TryParseLamStart
    \/ TryParseLamAfterBody
    \/ TryParseAppStart
    \/ TryParseAppAfterHead
    \/ TryParseAppAfterAtom
    \/ TryParseAtomStart
    \/ TryParseAtomAfterInner

SpecParser == InitParser /\ [][NextParser]_vars

(***************************************************************************)
(* SpecLower: from_ast on any named tree of at most MaxSynSize nodes over  *)
(* two identifiers, with or without free identifiers.                      *)
(***************************************************************************)
SynNames == {<<"x">>, <<"y">>}

RECURSIVE SynExprsOfSize(_)
\* the named trees of exactly n nodes
SynExprsOfSize(n) ==
    IF n = 1 THEN {mk_ident(v) : v \in SynNames}
    ELSE {mk_lam(v, b) : v \in SynNames, b \in SynExprsOfSize(n - 1)}
         \cup {mk_parens(b) : b \in SynExprsOfSize(n - 1)}
         \cup UNION {{mk_app(f, x) : f \in SynExprsOfSize(k),
                                     x \in SynExprsOfSize(n - 1 - k)} :
                      k \in 1..(n - 2)}

InitLower ==
    /\ syn_expr \in UNION {SynExprsOfSize(n) : n \in 1..MaxSynSize}
    /\ lowered = None
    /\ FilesIdle /\ MainIdle /\ LexerIdle /\ ParserIdle /\ EvalIdle
    /\ HighlightIdle /\ StackIdle

NextLower == FromAst

SpecLower == InitLower /\ [][NextLower]_vars

(***************************************************************************)
(* SpecEval: eval_loop and then eval on any expression of at most          *)
(* MaxExprSize nodes, closed or not, and on the two-argument functions of  *)
(* CurriedApps applied to two values, in a build with or without overflow  *)
(* checks.                                                                 *)
(***************************************************************************)
VarIndices == {0, 1}
U64Literals == {u64(1), U64_MAX}

RECURSIVE ExprsOfSize(_)
\* the expressions of exactly n nodes
ExprsOfSize(n) ==
    IF n = 1 THEN {Var(i) : i \in VarIndices} \cup {U64(k) : k \in U64Literals}
    ELSE {Lam(b) : b \in ExprsOfSize(n - 1)}
         \cup UNION {{App(l, r) : l \in ExprsOfSize(k), r \in ExprsOfSize(n - 1 - k)}
                         \cup {AddU64(l, r) : l \in ExprsOfSize(k),
                                              r \in ExprsOfSize(n - 1 - k)} :
                      k \in 1..(n - 2)}

\* expressions that are values: a literal, the identity function
ValueExprs == {U64(k) : k \in U64Literals} \cup {Lam(Var(0))}

\* a function of two arguments that returns one of them, applied to two values
CurriedApps ==
    {App(App(Lam(Lam(Var(n))), a1), a2) :
        n \in VarIndices, a1 \in ValueExprs, a2 \in ValueExprs}

InitEval ==
    /\ overflow_checks \in BOOLEAN
    /\ expr \in UNION {ExprsOfSize(n) : n \in 1..MaxExprSize} \cup CurriedApps
    /\ machine = EvalLoopNew(expr, MaxSteps)
    /\ eval_result = None
    /\ FilesIdle /\ MainIdle /\ LexerIdle /\ ParserIdle /\ LowerIdle
    /\ HighlightIdle /\ StackIdle

NextEval ==
    \/ InputU64
    \/ InputVar
    \/ InputApp
    \/ InputLam
    \/ InputAddU64
    \/ OutputReturn
    \/ OutputAppL
    \/ OutputAppR
    \/ OutputAddU64L
    \/ OutputAddU64R
    \/ Eval

SpecEval == InitEval /\ [][NextEval]_vars

(***************************************************************************)
(* SpecBenchmark: eval_loop on the expression of the benchmark.            *)
(***************************************************************************)
InitBenchmark ==
    /\ overflow_checks \in BOOLEAN
    /\ expr = build_eval_expr
    /\ machine = EvalLoopNew(expr, MaxBenchmarkSteps)
    /\ eval_result = None
    /\ FilesIdle /\ MainIdle /\ LexerIdle /\ ParserIdle /\ LowerIdle
    /\ HighlightIdle /\ StackIdle

NextBenchmark ==
    \/ InputU64
    \/ InputVar
    \/ InputApp
    \/ InputLam
    \/ InputAddU64
    \/ OutputReturn
    \/ OutputAppL
    \/ OutputAppR
    \/ OutputAddU64L
    \/ OutputAddU64R

SpecBenchmark == InitBenchmark /\ [][NextBenchmark]_vars

\* eval_loop is a loop of one thread: a turn that can be taken is taken
SpecBenchmarkFair == SpecBenchmark /\ WF_vars(NextBenchmark)

(***************************************************************************)
(* SpecStack: a Stack of a capacity of one or two items, or of the 128     *)
(* bytes that hold sixteen, and any sequence of push, pop, peek, index and  *)
(* the two iterations on it.                                               *)
(***************************************************************************)
StackCapacities == {8, 9, 128}

InitStack ==
    /\ value_stack \in {Stack_with_capacity(size_bytes) : size_bytes \in StackCapacities}
    /\ stack_out = None
    /\ overflow_checks \in BOOLEAN
    /\ expr = None /\ machine = None /\ eval_result = None
    /\ FilesIdle /\ MainIdle /\ LexerIdle /\ ParserIdle /\ LowerIdle /\ HighlightIdle

NextStack ==
    \/ \E val \in StackValues : Stack_push(val)
    \/ Stack_pop
    \/ Stack_peek
    \/ \E ix \in 0..2 : Stack_index(ix)
    \/ Stack_iter_from_top
    \/ Stack_iter_from_bottom

SpecStack == InitStack /\ [][NextStack]_vars

(***************************************************************************)
(* SpecHighlight: one call of errors::highlight on a line without newline, *)
(* at the start of a file or behind two bytes, with a point or a span that *)
(* starts anywhere from Offset(0) to the end of the line.                  *)
(***************************************************************************)
HighlightLines == SeqsUpTo({"a", TwoByteChar}, MaxLineLen)

HighlightRegions(content, line_offset) ==
    {HighlightPoint(offset) : offset \in 0..(line_offset + ByteLen(content))}
    \cup {HighlightSpan(Span(start, length)) :
            start \in 0..(line_offset + ByteLen(content)), length \in 0..MaxSpanLen}

InitHighlight ==
    /\ \E content \in HighlightLines, line_offset \in FileStarts :
          \E region \in HighlightRegions(content, line_offset) :
              highlight_call = [line |-> content, line_offset |-> line_offset,
                                region |-> region]
    /\ highlighted = None
    /\ overflow_checks \in BOOLEAN
    /\ expr = None /\ machine = None /\ eval_result = None
    /\ FilesIdle /\ MainIdle /\ LexerIdle /\ ParserIdle /\ LowerIdle /\ StackIdle

NextHighlight == HighlightCall

SpecHighlight == InitHighlight /\ [][NextHighlight]_vars

(***************************************************************************)
(* Claims about the lexer (SpecLexer).                                     *)
(***************************************************************************)
\* the spans of toks are contiguous, each at least one byte long, the first
\* starts at from and the last ends at to
SpansCover(toks, from, to) ==
    /\ \A i \in 1..Len(toks) :
          /\ toks[i].span.length >= 1
          /\ toks[i].span.start = (IF i = 1 THEN from ELSE SpanEnd(toks[i - 1].span))
    /\ to = (IF toks = <<>> THEN from ELSE SpanEnd(Last(toks).span))

\* C3: when tokenize succeeds the list ends with the only Eof token, whose span
\* is (end of input, 1), and the spans of the tokens before it are contiguous,
\* start at the file's start and cover exactly the input bytes; while tokenize
\* runs, the tokens pushed so far cover exactly the bytes consumed so far (one
\* token per step, no byte skipped).
C3_TokensCoverInput ==
    /\ src_file # None /\ lex_result = None =>
          /\ SpansCover(tokens, src_file.start, lexer.offset)
          /\ \A i \in 1..Len(tokens) : tokens[i].data # "Eof"
    /\ src_file # None /\ lex_result # None /\ lex_result.val.tag = "Ok" =>
          LET toks == lex_result.val.val
              end == src_file.start + ByteLen(src_file.content)
          IN /\ toks # <<>>
             /\ Last(toks) = Token("Eof", Span(end, 1))
             /\ \A i \in 1..(Len(toks) - 1) : toks[i].data # "Eof"
             /\ SpansCover(Front(toks), src_file.start, end)

\* tokenize has succeeded on an input with an identifier and an arrow
C3_Witness ==
    /\ lex_result # None /\ lex_result.val.tag = "Ok"
    /\ \E i, j \in 1..Len(lex_result.val.val) :
          /\ lex_result.val.val[i].data = "Ident"
          /\ lex_result.val.val[j].data = "RArrow"

\* the end of the file lexed: the offset after its last byte
FileEnd == src_file.start + ByteLen(src_file.content)

\* C15: whenever tokenize fails it returns one Unexpected or UnexpectedEof error,
\* and no tokens, whose offset lies within the input:
\* file.start <= offset < file.start + len(content).
C15_LexErrorInsideInput ==
    lex_result # None /\ lex_result.val.tag = "Err" =>
        /\ \/ \E c \in SrcChars, offset \in src_file.start..FileEnd :
                 lex_result.val = Err([tag |-> "Unexpected", c |-> c, offset |-> offset])
           \/ \E offset \in src_file.start..FileEnd :
                 lex_result.val = Err([tag |-> "UnexpectedEof", offset |-> offset])
        /\ src_file.start <= lex_result.val.err.offset
        /\ lex_result.val.err.offset < FileEnd

\* C16: at whatever offset the file is registered, the payload of every Ident
\* token is the part of the file's content that the span of the token covers,
\* content[span.start - file.start .. span.end - file.start].
C16_IdentPayloadIsSpanText ==
    \A i \in 1..Len(tokens) :
        tokens[i].data = "Ident" =>
            Ok(tokens[i].text) = StrSlice(src_file.content,
                                          tokens[i].span.start - src_file.start,
                                          SpanEnd(tokens[i].span) - src_file.start)

\* C17: no span straddles the boundary of its file: every token the lexer
\* produces, the Eof token too, has file.start <= span.start and
\* span.start + span.length <= file.start + len(content).
C17_SpansInsideFile ==
    \A i \in 1..Len(tokens) :
        /\ src_file.start <= tokens[i].span.start
        /\ tokens[i].span.start + tokens[i].span.length <= FileEnd

\* the characters a token rule of next_token starts with
RuleStarts == {"\n", " ", "\\", "-", "(", ")", "="} \cup AsciiLowercase

\* the global byte offset of the i-th character of the file lexed
ByteOffsetOf(i) == src_file.start + ByteLen(SubSeq(src_file.content, 1, i - 1))

\* tokenize is at the i-th character, which is c
LexerAt(i, c) ==
    /\ lex_result = None /\ lexer.current # None
    /\ lexer.position = i /\ src_file.content[i] = c

\* C34: lexer error values name the offending position: when no token rule
\* matches, the error is Unexpected(c, off) with c the offending character and
\* off its global byte offset, also when c follows a lone '-' (off is then the
\* byte after '-'); a '-' that is the last byte of the input gives
\* UnexpectedEof(off) with off the end-of-input offset; '-' followed by '>'
\* gives one RArrow token of span length 2.
C34_LexErrorPosition ==
    [][\A i \in 1..Len(src_file.content) :
        /\ lex_result = None /\ lexer.current # None /\ lexer.position = i =>
              lexer.current.val = src_file.content[i]
        /\ \A c \in SrcChars \ RuleStarts :
              LexerAt(i, c) =>
                  lex_result' = Some(Err([tag |-> "Unexpected", c |-> c,
                                          offset |-> ByteOffsetOf(i)]))
        /\ LexerAt(i, "-") /\ i = Len(src_file.content) =>
              lex_result' = Some(Err([tag |-> "UnexpectedEof", offset |-> FileEnd]))
        /\ LexerAt(i, "-") /\ i < Len(src_file.content) =>
              IF src_file.content[i + 1] = ">"
              THEN /\ lex_result' = None
                   /\ tokens' = Append(tokens,
                                       Token("RArrow", Span(ByteOffsetOf(i), 2)))
              ELSE lex_result' = Some(Err([tag |-> "Unexpected",
                                           c |-> src_file.content[i + 1],
                                           offset |-> ByteOffsetOf(i) + 1]))]_vars

\* tokenize of a file registered behind another one has failed, behind a
\* token, at a character that follows a lone '-'
C34_Witness ==
    /\ lex_result # None /\ lex_result.val.tag = "Err"
    /\ lex_result.val.err.tag = "Unexpected"
    /\ src_file.start > 0
    /\ tokens # <<>>
    /\ lexer.position >= 2
    /\ src_file.content[lexer.position - 1] = "-"
    /\ lex_result.val.err.c = src_file.content[lexer.position]

\* text matches [a-z][a-zA-Z0-9]*
IsIdentText(text) ==
    /\ text # <<>>
    /\ is_ident_start(text[1])
    /\ \A k \in 1..Len(text) : is_ident_body(text[k])

\* the character of the file lexed that starts at global byte offset, None
\* when the file ends there
CharAtOffset(offset) ==
    IF offset >= FileEnd THEN None
    ELSE Some(src_file.content[CharsBefore(src_file.content,
                                           offset - src_file.start) + 1])

\* C35: identifiers are lexed by maximal munch: the text of every Ident token
\* matches [a-z][a-zA-Z0-9]*, the byte right after the token (if any) is not
\* ASCII alphanumeric, and therefore a successful token list never holds two
\* adjacent Ident tokens; every token before Eof has span length >= 1, so
\* tokenize ends after at most len(input) + 1 steps.
C35_MaximalMunch ==
    /\ \A i \in 1..Len(tokens) :
          /\ tokens[i].data = "Ident" =>
                /\ IsIdentText(tokens[i].text)
                /\ CharAtOffset(SpanEnd(tokens[i].span)) # None =>
                      ~is_ident_body(CharAtOffset(SpanEnd(tokens[i].span)).val)
                /\ i < Len(tokens) => tokens[i + 1].data # "Ident"
          /\ tokens[i].data # "Eof" => tokens[i].span.length >= 1
    /\ lex_result = None => Len(tokens) <= ByteLen(src_file.content)
    /\ lex_result # None => Len(tokens) <= ByteLen(src_file.content) + 1

(***************************************************************************)
(* Claims about the parser (SpecParser).                                   *)
(***************************************************************************)
IsSpace(token) == token.data \in {"Space", "Newline"}

\* the tokens of the input that are neither Space nor Newline
NonSpace(input) == SelectSeq(input, LAMBDA t : ~IsSpace(t))

IdentsOf(toks) == [i \in 1..Len(toks) |-> mk_ident(toks[i].text)]

\* the input is n >= 2 identifiers, separated by any whitespace, then Eof
IsAtomSequence(input) ==
    LET toks == NonSpace(input)
    IN /\ Len(toks) >= 3
       /\ ~IsSpace(input[1])
       /\ \A i \in 1..(Len(toks) - 1) : toks[i].data = "Ident"

RECURSIVE AppsLeftNested(_)
\* in every application of the tree the argument is an atom and the function
\* is an atom or an application
AppsLeftNested(e) ==
    CASE e.tag = "Ident" -> TRUE
      [] e.tag = "Parens" -> AppsLeftNested(e.inner)
      [] e.tag = "Lam" -> AppsLeftNested(e.body)
      [] e.tag = "App" ->
           /\ e.x.tag \in {"Ident", "Parens"}
           /\ e.f.tag \in {"Ident", "Parens", "App"}
           /\ AppsLeftNested(e.f) /\ AppsLeftNested(e.x)

ParsedOk == parser # None /\ parser.result # None /\ parser.result.val.tag = "Ok"
ParsedErr == parser # None /\ parser.result # None /\ parser.result.val.tag = "Err"

\* the token vector up to (not including) token, ended by an Eof at its place
PrefixBefore(input, token) ==
    LET k == CHOOSE i \in 1..Len(input) : input[i] = token
    IN Append(SubSeq(input, 1, k - 1), Token("Eof", Span(token.span.start, 1)))

\* the follow set the claims name: RParen inside parentheses, Eof at top level
NamedFollow(p) ==
    IF \E i \in 1..Len(p.stack) : p.stack[i].fn = "try_parse_atom"
    THEN {"RParen"} ELSE {"Eof"}

\* the atom repetition of try_parse_app stops at a token that is not in the
\* follow set
AppStops(p) ==
    /\ At(p, "try_parse_app", "after_atom")
    /\ p.ret = Ok(None)
    /\ p.current # None
    /\ token_type(p.current.val) \notin NamedFollow(p)

\* an Err, once returned, is returned by every caller up to parse_expr_eof
ErrPropagates ==
    parser # None /\ parser.result = None /\ parser.ret # None
        /\ parser.ret.tag = "Err" =>
            /\ parser'.ret = parser.ret
            /\ parser'.result \in {None, Some(parser.ret)}

\* C4: when the atom repetition of an application stops at a token that neither
\* starts an atom nor is in the top follow set, parse_expr_eof fails with
\* Unexpected{actual: that token, expected: {Ident, LParen} united with the top
\* follow set}; the top follow set is {Eof} at top level and {RParen} inside
\* parentheses.
C4_AppStopError ==
    [][/\ AppStops(parser) =>
            parser'.ret = Err([tag |-> "Unexpected",
                               actual |-> parser.current.val,
                               expected |-> {"Ident", "LParen"} \cup NamedFollow(parser)])
       /\ ErrPropagates]_vars

\* parse_expr_eof has failed at a backslash in argument position inside
\* parentheses
C4_Witness ==
    /\ ParsedErr
    /\ parser.result.val.err.actual.data = "Backslash"
    /\ parser.result.val.err.expected = {"Ident", "LParen", "RParen"}

\* C5: application is left-associative: a sequence of n >= 2 identifiers parses
\* to App(...App(App(a1, a2), a3)..., an), and in every tree parsed the argument
\* of an application is an atom.
C5_AppLeftAssociative ==
    parser # None /\ parser.result # None =>
        /\ IsAtomSequence(parser.input) =>
              LET ids == IdentsOf(Front(NonSpace(parser.input)))
              IN parser.result = Some(Ok(mk_apps(Head(ids), Tail(ids))))
        /\ parser.result.val.tag = "Ok" => AppsLeftNested(parser.result.val.val)

\* three identifiers have been parsed
C5_Witness ==
    /\ ParsedOk
    /\ IsAtomSequence(parser.input)
    /\ Len(NonSpace(parser.input)) = 4
    /\ \E i \in 1..Len(parser.input) : IsSpace(parser.input[i])

\* the input is '\' x '->' a1 ... an Eof (n >= 1), with any whitespace
\* between the tokens
IsLambdaOfAtoms(input) ==
    LET toks == NonSpace(input)
    IN /\ Len(toks) >= 5
       /\ input[1].data = "Backslash"
       /\ toks[2].data = "Ident"
       /\ toks[3].data = "RArrow"
       /\ \A i \in 4..(Len(toks) - 1) : toks[i].data = "Ident"

\* C6: a lambda body extends as far right as possible: '\' x '->' a1 ... an parses
\* to Lam(x, left-nested application of a1..an), never to an application whose
\* head is the lambda.
C6_LambdaBodyExtendsRight ==
    parser # None /\ parser.result # None /\ IsLambdaOfAtoms(parser.input) =>
        LET toks == NonSpace(parser.input)
            ids == IdentsOf(SubSeq(toks, 4, Len(toks) - 1))
        IN parser.result =
              Some(Ok(mk_lam(toks[2].text, mk_apps(Head(ids), Tail(ids)))))

\* a lambda whose body is an application of two atoms has been parsed
C6_Witness ==
    /\ ParsedOk
    /\ IsLambdaOfAtoms(parser.input)
    /\ parser.result.val.val.tag = "Lam"
    /\ parser.result.val.val.body.tag = "App"

RECURSIVE FollowsAt(_)
\* the follow sets of the scopes that are open in a call stack: one per frame
\* that waits inside with_follows! or with_follows_extended!
FollowsAt(stack) ==
    IF stack = <<>> THEN <<>>
    ELSE LET f == Last(stack)
             below == FollowsAt(Front(stack))
         IN IF f.fn = "parse_expr_eof" /\ f.pc = "after_expr"
            THEN Append(below, {"Eof"})
            ELSE IF f.fn = "try_parse_atom" /\ f.pc = "after_inner"
            THEN Append(below, {"RParen"})
            ELSE IF f.fn = "try_parse_app" /\ f.pc \in {"after_head", "after_atom"}
            THEN Append(below, (IF below = <<>> THEN {} ELSE Last(below))
                               \cup {"Ident", "LParen"})
            ELSE below

\* C7: follow-set pushes are paired with pops on every exit path: the follows
\* stack holds exactly the sets of the scopes that are open (so at the exit of a
\* scope it is the stack of its entry), and it is empty again when
\* parse_expr_eof returns, Ok or Err.
C7_FollowsPaired ==
    parser # None =>
        /\ parser.follows = FollowsAt(parser.stack)
        /\ parser.result # None => parser.follows = <<>> /\ parser.stack = <<>>

\* parse_expr_eof has returned an error raised inside two scopes of parentheses
C7_Witness ==
    /\ ParsedErr
    /\ parser.follows = <<>>
    /\ Len(SelectSeq(parser.input, LAMBDA t : t.data = "LParen")) >= 2
    /\ parser.result.val.err.actual.span.start >= 3

\* C8: parse_expr_eof returns Ok only with the Eof token current and every token
\* before it consumed; when a complete top-level expression is followed by a
\* token that is not Eof and cannot continue it, the result is Unexpected with
\* Eof in its expected set.
C8_OkOnlyAtEof ==
    /\ ParsedOk =>
          /\ parser.current = Some(Last(parser.input))
          /\ parser.position = Len(parser.input)
          /\ Last(parser.input).data = "Eof"
    /\ ParsedErr =>
          LET err == parser.result.val.err
          IN err.actual.data # "Eof"
               /\ RunParser(ParserNew(PrefixBefore(parser.input, err.actual)))
                    .result.val.tag = "Ok"
             => err.tag = "Unexpected" /\ "Eof" \in err.expected

\* a complete expression followed by a closing parenthesis has been rejected
C8_Witness ==
    /\ ParsedErr
    /\ parser.result.val.err.actual.data = "RParen"
    /\ "Eof" \in parser.result.val.err.expected
    /\ RunParser(ParserNew(PrefixBefore(parser.input, parser.result.val.err.actual)))
         .result.val.tag = "Ok"

\* the token list without its Space and Newline tokens
WithoutSpaces(input) == SelectSeq(input, LAMBDA t : t.data \notin {"Space", "Newline"})

\* the outcome of a finished parse: the tree, or the one outcome of every failure
ParseOutcome(p) ==
    IF p.result.val.tag = "Ok" THEN p.result.val ELSE [tag |-> "Failed"]

\* C22: Space and Newline tokens are transparent to the parser: on an
\* Eof-terminated token list parse_expr_eof returns the tree it returns on the
\* list with every Space and Newline token taken out, or fails on both.
C22_SpacesTransparent ==
    parser # None /\ parser.result # None =>
        ParseOutcome(parser) =
            ParseOutcome(RunParser(ParserNew(WithoutSpaces(parser.input))))

\* a token of kind tt at the place of token at
TokenOfKind(tt, at) ==
    IF tt = "Ident" THEN IdentToken(<<"z">>, Span(at.span.start, 1))
    ELSE Token(tt, Span(at.span.start, TokenLength(tt)))

\* the token list with token put in just before its k-th token
InsertBefore(input, k, token) ==
    SubSeq(input, 1, k - 1) \o <<token>> \o SubSeq(input, k, Len(input))

\* the parse of the list of p with a token of kind tt put in before the token
\* p stopped at
ParseWithInserted(p, tt) ==
    RunParser(ParserNew(InsertBefore(p.input, p.position,
                                     TokenOfKind(tt, p.input[p.position]))))

\* the parse with the token of kind tt put in gets further than p did: it
\* consumes one token more, and with an Eof put in it succeeds
GetsFurther(p, tt) ==
    IF tt = "Eof" THEN ParseWithInserted(p, tt).result.val.tag = "Ok"
    ELSE ParseWithInserted(p, tt).position > p.position

\* C23: the expected set of a failure is closed under the follow sets: for
\* every failure Unexpected{actual, expected}, expected holds a terminal t such
\* that the parse of the token list with a token of kind t put in just before
\* actual consumes at least one token more than the failing parse did (for
\* t = Eof: such that this parse succeeds).
C23_ExpectedIsUsable ==
    ParsedErr /\ parser.result.val.err.tag = "Unexpected" =>
        /\ parser.input[parser.position] = parser.result.val.err.actual
        /\ \E t \in parser.result.val.err.expected : GetsFurther(parser, t)

\* a failure at a closing parenthesis behind a complete expression: an Eof put
\* in before it makes the parse succeed, an identifier put in is consumed
C23_Witness ==
    /\ ParsedErr
    /\ parser.result.val.err.actual.data = "RParen"
    /\ parser.position > 1
    /\ {"Eof", "Ident"} \subseteq parser.result.val.err.expected
    /\ GetsFurther(parser, "Eof")
    /\ GetsFurther(parser, "Ident")

(***************************************************************************)
(* Claims about the lowering (SpecLower).                                  *)
(***************************************************************************)
RECURSIVE FreeIdents(_)
\* the identifiers of a named tree that no enclosing Lam binds
FreeIdents(e) ==
    CASE e.tag = "Ident" -> {e.name}
      [] e.tag = "Parens" -> FreeIdents(e.inner)
      [] e.tag = "App" -> FreeIdents(e.f) \cup FreeIdents(e.x)
      [] e.tag = "Lam" -> FreeIdents(e.body) \ {e.arg}

\* the number of binders between a use of name and the closest binder of it, in
\* the stack of binder names (the innermost last)
RECURSIVE IndexFromInnermost(_, _)
IndexFromInnermost(binders, name) ==
    IF Last(binders) = name THEN 0
    ELSE 1 + IndexFromInnermost(Front(binders), name)

RECURSIVE ScanLower(_, _)
\* the term got by scanning the stack of binder names from the innermost
\* outward at every identifier
ScanLower(binders, e) ==
    CASE e.tag = "Ident" -> Var(IndexFromInnermost(binders, e.name))
      [] e.tag = "Parens" -> ScanLower(binders, e.inner)
      [] e.tag = "App" -> App(ScanLower(binders, e.f), ScanLower(binders, e.x))
      [] e.tag = "Lam" -> Lam(ScanLower(Append(binders, e.arg), e.body))

RECURSIVE WellScoped(_, _)
\* every Var(i) of e lies under at least i + 1 Lam nodes, depth of them being
\* around e
WellScoped(e, depth) ==
    CASE e.tag = "Var" -> e.n < depth
      [] e.tag = "U64" -> TRUE
      [] e.tag = "Lam" -> WellScoped(e.body, depth + 1)
      [] e.tag \in {"App", "AddU64"} -> WellScoped(e.l, depth) /\ WellScoped(e.r, depth)

LoweredClosed == syn_expr # None /\ lowered # None /\ FreeIdents(syn_expr) = {}

\* C2: for a named tree without free identifiers from_ast emits for each
\* Ident(x) the Var(i) with i the number of Lam binders between the use and the
\* closest enclosing binder of x, shadowing included: the term is the one got by
\* scanning a stack of binder names from the innermost outward.
C2_IndexOfClosestBinder ==
    LoweredClosed => lowered = Some(Ok(ScanLower(<<>>, syn_expr)))

\* C9: for a named tree without free identifiers lowering succeeds and every
\* emitted Var(i) lies under at least i + 1 Lam nodes of the output.
C9_LoweredWellScoped ==
    LoweredClosed =>
        /\ lowered.val.tag = "Ok"
        /\ WellScoped(lowered.val.val, 0)

\* a tree with an identifier used under three binders, two of its own name, has
\* been lowered
C9_Witness ==
    /\ LoweredClosed
    /\ lowered.val.tag = "Ok"
    /\ lowered # Some(Ok(ScanLower(<<>>, syn_expr)))
    /\ \E v \in SynNames : \E w \in SynNames \ {v} :
          syn_expr = mk_lam(v, mk_lam(v, mk_lam(w, mk_ident(v))))

\* two named trees without free identifiers that differ only by a consistent
\* renaming of bound identifiers and by Parens nodes: every identifier of the
\* one is bound by the binder that binds it in the other
SameUpToRenaming(e1, e2) ==
    /\ FreeIdents(e1) = {} /\ FreeIdents(e2) = {}
    /\ ScanLower(<<>>, e1) = ScanLower(<<>>, e2)

\* C36: lowering respects renaming and parentheses: two named trees without
\* free identifiers that differ only by a consistent renaming of bound
\* identifiers (shadowing included) and by Parens nodes lower to identical
\* de Bruijn terms; in particular from_ast(Parens(e)) = from_ast(e).
C36_RenamingInvariant ==
    LoweredClosed =>
        /\ \A n \in 1..MaxSynSize : \A other \in SynExprsOfSize(n) :
              SameUpToRenaming(syn_expr, other) => from_ast(other) = lowered.val
        /\ from_ast(mk_parens(syn_expr)) = lowered.val

RECURSIVE EnteredAll(_)
\* the map inside the Lams of binders (the innermost last), none left yet
EnteredAll(binders) ==
    IF binders = <<>> THEN [k \in {} |-> <<>>]
    ELSE lam_enter(EnteredAll(Front(binders)), Last(binders)).val

\* the stacks of binders a tree is lowered under
BinderStacks == SeqsUpTo(SynNames, 2)

\* C37: lowering an identifier with no enclosing binder of that name is a
\* fatal error that yields no term: this holds for an identifier that was
\* never bound and for one used after the Lam that bound it has been left (the
\* entry of the binder is removed on exit and every other entry gets back the
\* depth it had before the Lam was entered).
C37_UnboundIsFatal ==
    /\ syn_expr # None /\ lowered # None /\ FreeIdents(syn_expr) # {} =>
          lowered = Some(Panic)
    /\ syn_expr # None =>
          \A binders \in BinderStacks :
              IF FreeIdents(syn_expr) \subseteq {binders[i] : i \in 1..Len(binders)}
              THEN /\ __from_ast(EnteredAll(binders), syn_expr).tag = "Ok"
                   /\ __from_ast(EnteredAll(binders), syn_expr).val.var_map
                          = EnteredAll(binders)
              ELSE __from_ast(EnteredAll(binders), syn_expr) = Panic

\* the lowering of (\v -> v) v, where v is used behind the Lam that bound it,
\* has ended in the fatal error
C37_Witness ==
    /\ lowered = Some(Panic)
    /\ \E v \in SynNames :
          syn_expr = mk_app(mk_lam(v, mk_ident(v)), mk_ident(v))

(***************************************************************************)
(* Claims about the evaluators (SpecEval).                                 *)
(***************************************************************************)
RECURSIVE Deref(_, _)
\* the value behind a reference, the references of a closure's env followed
Deref(heap, ref) ==
    IF heap[ref].tag = "U64" THEN heap[ref]
    ELSE [tag |-> "Closure",
          env |-> [i \in 1..Len(heap[ref].env) |-> Deref(heap, heap[ref].env[i])],
          body |-> heap[ref].body]

BothOver == machine # None /\ eval_result # None /\ machine.status # "running"

\* C1: on a closed, well-scoped expression eval and eval_loop return
\* structurally equal values: one returns when the other does, and the values
\* are the same U64, or closures of the same body whose envs hold equal values.
C1_EvalLoopEqualsEval ==
    BothOver /\ WellScoped(expr, 0) =>
        /\ machine.status = "returned" <=> eval_result.val.tag = "Ok"
        /\ machine.status = "returned" =>
              Deref(machine.heap, machine.code.value)
                = Deref(eval_result.val.heap, eval_result.val.ref)

\* both have returned a closure that holds a value in its env
C1_Witness ==
    /\ BothOver /\ WellScoped(expr, 0)
    /\ machine.status = "returned"
    /\ machine.heap[machine.code.value].tag = "Closure"
    /\ machine.heap[machine.code.value].env # <<>>
    /\ eval_result.val.tag = "Ok"

\* the value of a value expression evaluated under the empty env
ValueOf(a) == IF a.tag = "U64" THEN ValueU64(a.n) ELSE Closure(<<>>, a.body)

\* both evaluators have returned, and the value val
BothReturned(val) ==
    /\ machine.status = "returned"
    /\ Deref(machine.heap, machine.code.value) = val
    /\ eval_result.val.tag = "Ok"
    /\ Deref(eval_result.val.heap, eval_result.val.ref) = val

\* C18: in both evaluators Var(n) is env[len(env) - n - 1], the n-th innermost
\* binding: in App(App(Lam(Lam(b)), a1), a2) the Var(0) of b is the value of a2
\* and its Var(1) the value of a1, and the partial application
\* App(Lam(Lam(b)), a1) yields Closure{env: [value of a1], body: b}.
C18_VarIsNthInnermost ==
    /\ [](BothOver =>
            /\ \A n \in VarIndices : \A a1 \in ValueExprs : \A a2 \in ValueExprs :
                  expr = App(App(Lam(Lam(Var(n))), a1), a2) =>
                      BothReturned(ValueOf(IF n = 0 THEN a2 ELSE a1))
            /\ \A a1 \in ValueExprs :
                  (expr.tag = "App" /\ expr.r = a1 /\ expr.l.tag = "Lam"
                        /\ expr.l.body.tag = "Lam") =>
                      BothReturned(Closure(<<ValueOf(a1)>>, expr.l.body.body)))
    /\ [][(machine.status = "running" /\ machine.code.tag = "Input"
              /\ machine.code.expr.tag = "Var" /\ machine' # machine
              /\ machine.code.expr.n < Len(machine.env)) =>
                machine'.code =
                    Output(machine.env[(Len(machine.env) - machine.code.expr.n - 1) + 1])]_vars

\* both evaluators have returned the first of two different arguments
C18_Witness ==
    /\ BothOver
    /\ \E a1 \in ValueExprs : \E a2 \in ValueExprs \ {a1} :
          /\ expr = App(App(Lam(Lam(Var(1))), a1), a2)
          /\ BothReturned(ValueOf(a1))

\* the loop is at Input(e) or at Output with a frame of this tag on top, and
\* takes a turn
TurnAtInput(tag) ==
    /\ machine.status = "running" /\ machine.code.tag = "Input"
    /\ machine.code.expr.tag = tag /\ machine' # machine
TurnAtOutput(tag) ==
    /\ machine.status = "running" /\ machine.code.tag = "Output"
    /\ machine.cont # <<>> /\ Last(machine.cont).tag = tag /\ machine' # machine

\* C19: Lam(body) allocates Closure{env: the current env, body}; a value once
\* allocated is never changed, the heap only grows; the application of a
\* closure takes the env and body the closure holds and evaluates the body under
\* exactly that env followed by the argument.  eval, whose heap is seen when it
\* returns, leaves the heap eval_loop leaves.
C19_ClosureEnvSnapshot ==
    /\ [][TurnAtInput("Lam") =>
             /\ machine'.heap = Append(machine.heap,
                                       Closure(machine.env, machine.code.expr.body))
             /\ machine'.code = Output(Len(machine.heap) + 1)]_vars
    /\ [][machine # None /\ machine' # None =>
             /\ Len(machine'.heap) >= Len(machine.heap)
             /\ SubSeq(machine'.heap, 1, Len(machine.heap)) = machine.heap]_vars
    /\ [][(TurnAtOutput("AppL") /\ machine.heap[machine.code.value].tag = "Closure") =>
             Last(machine'.cont) = AppR(machine.heap[machine.code.value].env,
                                       machine.heap[machine.code.value].body)]_vars
    /\ [][TurnAtOutput("AppR") =>
             /\ machine'.env = Append(Last(machine.cont).env, machine.code.value)
             /\ machine'.code = Input(Last(machine.cont).body)]_vars
    /\ [](BothOver /\ machine.status = "returned" /\ eval_result.val.tag = "Ok" =>
             /\ eval_result.val.heap = machine.heap
             /\ eval_result.val.ref = machine.code.value)

\* a closure that holds a value in its env has been applied to an argument: the
\* env of the body is longer than the env the closure still holds
C19_Witness ==
    /\ machine # None /\ machine.status = "running"
    /\ \E c \in 1..Len(machine.heap) :
          /\ machine.heap[c].tag = "Closure"
          /\ machine.heap[c].env # <<>>
          /\ machine.code = Input(machine.heap[c].body)
          /\ Front(machine.env) = machine.heap[c].env

RECURSIVE CarryInto(_, _, _)
\* the carry into the i-th limb of a + b
CarryInto(a, b, i) ==
    IF i = 1 THEN 0 ELSE (a[i - 1] + b[i - 1] + CarryInto(a, b, i - 1)) \div LimbBase

\* (a + b) mod 2^64
SumMod64(a, b) == [i \in 1..4 |-> (a[i] + b[i] + CarryInto(a, b, i)) % LimbBase]

\* C20: AddU64 adds modulo 2^64: both evaluators turn AddU64(U64(a), U64(b))
\* into U64((a + b) mod 2^64), and neither traps when the sum overflows.
C20_AddWraps ==
    \A a \in U64Literals : \A b \in U64Literals :
        BothOver /\ expr = AddU64(U64(a), U64(b)) =>
            BothReturned(ValueU64(SumMod64(a, b)))

\* the messages of the panics for a value of the wrong type
TypeMismatchMessages ==
    {"eval failed: expected Closure", "eval failed: expected U64",
     "eval_loop failed: Expected closure", "eval_loop failed: Expected u64"}

\* C21: on a closed, well-scoped expression the two evaluators fail only
\* through a run-time type mismatch (a non-closure applied, a non-U64 added):
\* every panic of eval and of eval_loop is one of the two type panics, the
\* lookup env[len - n - 1] is never out of bounds and eval_loop never reaches
\* its "no output to return" branch.
C21_OnlyTypeMismatchFails ==
    WellScoped(expr, 0) =>
        /\ machine # None /\ machine.status = "panicked" =>
              machine.message \in TypeMismatchMessages
        /\ eval_result # None /\ eval_result.tag = "Panic" =>
              eval_result.message \in TypeMismatchMessages

\* C25: eval_loop on the expression of the benchmark (the Church-encoded list
\* [0, 1, 2, 3, 4, 5] folded with AddU64 from the seed 0, as build_eval_expr
\* builds it) terminates, and what it returns is U64(15).
C25_BenchmarkReturns15 ==
    <>(/\ machine.status = "returned"
       /\ machine.heap[machine.code.value] = ValueU64(u64(15)))

\* the loop has returned from the benchmark after the six additions
C25_Witness ==
    /\ expr = build_eval_expr
    /\ machine.status = "returned"
    /\ machine.cont = <<>>
    /\ Cardinality({i \in 1..Len(machine.heap) : machine.heap[i].tag = "U64"}) >= 13

\* the variant of Value that the left operand of e has to be
OperandTag(e) == IF e.tag = "App" THEN "Closure" ELSE "U64"

\* the panic of eval_loop and of eval for a left operand of e of the other variant
LoopMismatch(e) ==
    IF e.tag = "App" THEN "eval_loop failed: Expected closure"
    ELSE "eval_loop failed: Expected u64"
EvalMismatch(e) ==
    IF e.tag = "App" THEN "eval failed: expected Closure"
    ELSE "eval failed: expected U64"

\* the frame at the bottom of cont is the one that waits for the left operand
\* of the whole expression: the only L frame with the empty env, as every frame
\* pushed in the body of a closure has the argument in its env
BottomIsLeft ==
    /\ machine.cont # <<>>
    /\ machine.cont[1].tag = (IF expr.tag = "App" THEN "AppL" ELSE "AddU64L")
    /\ machine.cont[1].env = <<>>

\* the frame at the bottom of cont is an R frame: the left operand of the whole
\* expression has passed the check
BottomIsRight ==
    /\ machine.cont # <<>>
    /\ machine.cont[1].tag = (IF expr.tag = "App" THEN "AppR" ELSE "AddU64R")

\* the left operand of the whole expression, evaluated alone
LeftAlone == eval(<<>>, <<>>, expr.l, MaxSteps)

\* C28: evaluation goes from left to right with the check in between: in
\* App(l, r) both evaluators reduce l and require a closure before any step of
\* r, in AddU64(l, r) they reduce l and require a U64 before any step of r: the
\* heap holds what l allocated, and nothing else, until the check is passed.
\* When the value of l is of the wrong variant r is never evaluated and nothing
\* is allocated for it: both evaluators panic on the heap that l left.
C28_LeftBeforeRight ==
    expr.tag \in {"App", "AddU64"} /\ LeftAlone.tag = "Ok" =>
        IF LeftAlone.heap[LeftAlone.ref].tag = OperandTag(expr)
        THEN /\ BottomIsLeft => Len(machine.heap) <= Len(LeftAlone.heap)
             /\ BottomIsRight =>
                   /\ Len(machine.heap) >= Len(LeftAlone.heap)
                   /\ SubSeq(machine.heap, 1, Len(LeftAlone.heap)) = LeftAlone.heap
             /\ eval_result # None /\ eval_result.val.tag # "OutOfFuel" =>
                   /\ Len(eval_result.val.heap) >= Len(LeftAlone.heap)
                   /\ SubSeq(eval_result.val.heap, 1, Len(LeftAlone.heap))
                        = LeftAlone.heap
        ELSE /\ ~BottomIsRight
             /\ Len(machine.heap) <= Len(LeftAlone.heap)
             /\ machine.status # "running" =>
                   /\ machine.status = "panicked"
                   /\ machine.message = LoopMismatch(expr)
                   /\ machine.heap = LeftAlone.heap
             /\ eval_result # None =>
                   eval_result.val = EvalPanic(LeftAlone.heap, EvalMismatch(expr))

\* both evaluators have stopped at the left operand of an addition that is a
\* closure, with a right operand that would have allocated
C28_Witness ==
    /\ expr.tag = "AddU64" /\ LeftAlone.tag = "Ok"
    /\ LeftAlone.heap[LeftAlone.ref].tag = "Closure"
    /\ expr.r.tag \in {"U64", "Lam"}
    /\ machine.status = "panicked" /\ machine.heap = LeftAlone.heap
    /\ eval_result # None /\ eval_result.val.tag = "Panic"

\* the turns from the i-th on at which code is Output and cont is as high as at
\* the i-th
OutputsAtHeightOf(t, i) ==
    {j \in (i + 1)..Len(t) :
        t[j].code.tag = "Output" /\ Len(t[j].cont) = Len(t[i].cont)}

\* from the i-th turn up to the first of OutputsAtHeightOf the frames that
\* cont had at the i-th turn are there, as they were
KeptUntilOutput(t, i) ==
    \A j \in i..Len(t) :
        (\A o \in OutputsAtHeightOf(t, i) : j <= o) =>
            /\ Len(t[j].cont) >= Len(t[i].cont)
            /\ SubSeq(t[j].cont, 1, Len(t[i].cont)) = t[i].cont

\* C29: the discipline of the continuation stack: when the machine is at
\* Input(e) with the stack K, the first later state with code Output(v) and a
\* stack as high as K has the stack K, and until then no frame of K is popped or
\* changed; the machine returns only at Output(v) with the empty stack, and v is
\* the value of the whole expression.
C29_ContDiscipline ==
    /\ \A i \in 1..Len(machine.trace) :
          machine.trace[i].code.tag = "Input" => KeptUntilOutput(machine.trace, i)
    /\ machine.status = "returned" =>
          /\ machine.code.tag = "Output" /\ machine.cont = <<>>
          /\ eval_result # None =>
                /\ eval_result.val.tag = "Ok"
                /\ Deref(machine.heap, machine.code.value)
                     = Deref(eval_result.val.heap, eval_result.val.ref)

\* the loop came back to Output on the frame that was there when it went into
\* an application, five turns or more before
C29_Witness ==
    \E i \in 1..Len(machine.trace) : \E j \in OutputsAtHeightOf(machine.trace, i) :
        /\ machine.trace[i].code.tag = "Input"
        /\ machine.trace[i].code.expr.tag = "App"
        /\ Len(machine.trace[i].cont) >= 1
        /\ j >= i + 5
        /\ machine.trace[j].cont = machine.trace[i].cont

RECURSIVE LamsAround(_, _, _)
\* the numbers of Lam nodes that enclose e where it stands in t, depth of them
\* being around t
LamsAround(t, e, depth) ==
    (IF t = e THEN {depth} ELSE {})
    \cup CASE t.tag = "Lam" -> LamsAround(t.body, e, depth + 1)
            [] t.tag \in {"App", "AddU64"} ->
                 LamsAround(t.l, e, depth) \cup LamsAround(t.r, e, depth)
            [] OTHER -> {}

\* a turn of the loop that goes on
TurnTaken == machine'.steps = machine.steps + 1 /\ machine'.status = "running"

\* C30: the shape of the environment in eval_loop on a closed expression: at
\* Input(e) env is as long as the number of Lam nodes that enclose e; the env of
\* every Closure allocated is as long as the number of Lam nodes that enclose
\* the Lam it came from, and a call enters the body under that env with the
\* argument behind it, so that env[k] is what the (k+1)-th enclosing Lam from
\* outside bound; the env saved in an AppL or AddU64L frame is the env at the
\* Input that pushed it and the env under which the right operand is evaluated.
C30_EnvShape ==
    /\ [](WellScoped(expr, 0) =>
            /\ machine.code.tag = "Input" =>
                  Len(machine.env) \in LamsAround(expr, machine.code.expr, 0)
            /\ \A i \in 1..Len(machine.heap) :
                  machine.heap[i].tag = "Closure" =>
                      Len(machine.heap[i].env)
                          \in LamsAround(expr, Lam(machine.heap[i].body), 0)
            /\ \A i \in 1..Len(machine.cont) :
                  machine.cont[i].tag \in {"AppL", "AddU64L"} =>
                      Len(machine.cont[i].env)
                          \in LamsAround(expr, machine.cont[i].r, 0))
    /\ [][WellScoped(expr, 0) /\ TurnTaken =>
            /\ machine.code.tag = "Input" /\ Len(machine'.cont) > Len(machine.cont) =>
                  Last(machine'.cont).env = machine.env
            /\ machine.code.tag = "Output"
               /\ Last(machine.cont).tag \in {"AppL", "AddU64L"} =>
                  /\ machine'.code = Input(Last(machine.cont).r)
                  /\ machine'.env = Last(machine.cont).env
            /\ machine.code.tag = "Output" /\ Last(machine.cont).tag = "AppR" =>
                  /\ machine'.code = Input(Last(machine.cont).body)
                  /\ machine'.env =
                        Append(Last(machine.cont).env, machine.code.value)
                  /\ \E i \in 1..Len(machine.heap) :
                        machine.heap[i] = Closure(Last(machine.cont).env,
                                                  Last(machine.cont).body)]_vars

\* inside the body of a closure that was called, the right operand of an
\* addition is entered under the env of its frame, which holds the argument
C30_Witness ==
    /\ WellScoped(expr, 0)
    /\ machine.code.tag = "Input"
    /\ Len(machine.env) = 1
    /\ Len(machine.trace) >= 2
    /\ machine.trace[Len(machine.trace) - 1].code.tag = "Output"
    /\ Last(machine.trace[Len(machine.trace) - 1].cont).tag = "AddU64L"
    /\ Last(machine.trace[Len(machine.trace) - 1].cont).env = machine.env

\* the closure that the left operand of the whole expression gave, and the
\* right operand evaluated on the heap that the left one left
LeftClosure == LeftAlone.heap[LeftAlone.ref]
RightAfterLeft == eval(LeftAlone.heap, <<>>, expr.r, MaxSteps)

\* the whole expression is an application of a closure to a value
AppOfClosure ==
    /\ expr.tag = "App" /\ LeftAlone.tag = "Ok"
    /\ LeftClosure.tag = "Closure"
    /\ RightAfterLeft.tag = "Ok"

\* body evaluated under the env of the closure with the value of the right
\* operand behind it
UnderClosureEnv(body) ==
    eval(RightAfterLeft.heap, Append(LeftClosure.env, RightAfterLeft.ref), body,
         MaxSteps)

\* both evaluators ended as res did: with its value, or with a panic
BothEndedAs(res) ==
    /\ res.tag = "Ok" =>
          /\ machine.status # "running" =>
                /\ machine.status = "returned"
                /\ Deref(machine.heap, machine.code.value) = Deref(res.heap, res.ref)
          /\ eval_result # None =>
                /\ eval_result.val.tag = "Ok"
                /\ eval_result.val.heap = res.heap
                /\ eval_result.val.ref = res.ref
    /\ res.tag = "Panic" =>
          /\ machine.status # "running" => machine.status = "panicked"
          /\ eval_result # None => eval_result.val.tag = "Panic"

\* C31, as the specification words it: App(f, x) requires f to evaluate to a
\* Closure whose body is itself a Lam(inner) and then evaluates inner under
\* the env of the closure extended with the value of x; a closure whose body
\* is no Lam node cannot be applied.
C31_ClosureBodyIsLam ==
    AppOfClosure =>
        IF LeftClosure.body.tag = "Lam"
        THEN BothEndedAs(UnderClosureEnv(LeftClosure.body.body))
        ELSE /\ machine.status # "returned"
             /\ eval_result # None => eval_result.val.tag = "Panic"

\* C31, amended: App(f, x) requires f to evaluate to a Closure {env, body},
\* body being the body of the Lam the closure came from, whatever node it is,
\* and then evaluates body under env extended with the value of x.
C31_ClosureBodyIsApplied ==
    AppOfClosure => BothEndedAs(UnderClosureEnv(LeftClosure.body))

\* both evaluators returned from the application of a closure whose body is a
\* variable, and of one whose body is a Lam they returned a closure
C31_Witness ==
    /\ AppOfClosure /\ BothOver
    /\ machine.status = "returned" /\ eval_result.val.tag = "Ok"
    /\ LeftClosure.body.tag = "Var"
    /\ machine.heap[machine.code.value].tag = "U64"

\* the place of token in the input
PlaceOf(input, token) == CHOOSE i \in 1..Len(input) : input[i] = token

\* the place of the last token before place k that is no whitespace, 0 when
\* there is none
LastSolidBefore(input, k) ==
    LET solid == {i \in 1..(k - 1) : ~IsSpace(input[i])}
    IN IF solid = {} THEN 0 ELSE CHOOSE i \in solid : \A j \in solid : j <= i

\* the terminals tried with expect at the place of actual: behind the last
\* token consumed that is no whitespace, up to actual itself
TriedAt(p, actual) ==
    {u[2] : u \in {t \in p.tried :
                     /\ t[1] > LastSolidBefore(p.input, PlaceOf(p.input, actual))
                     /\ t[1] <= PlaceOf(p.input, actual)}}

\* the follow set on top when an error is made
TopFollow(p) == IF p.follows = <<>> THEN {} ELSE Last(p.follows)

\* the terminals the parsing functions call expect with
TerminalsTried == {"Backslash", "Ident", "RArrow", "LParen", "RParen"}

\* an expect that matches leaves the parser one token further with nothing
\* expected
MatchClears(p) ==
    \A tt \in TerminalsTried :
        expect(p, tt).out # None =>
            /\ expect(p, tt).p.expected = {}
            /\ expect(p, tt).p.position = p.position + 1

\* this step makes the error
ErrRaised ==
    /\ parser.ret.tag # "Err"
    /\ parser'.ret.tag = "Err"

\* C32: the expected set is cleared by every expect that matches and advances
\* and grown by every expect; hence in every Unexpected error each terminal of
\* the reported set was either tried with expect at the position of actual
\* (behind the last consumed token that is no whitespace) or belongs to the
\* top follow set: a terminal is not reported for having been tried at an
\* earlier position.
C32_ExpectedIsLocal ==
    [][/\ MatchClears(parser)
       /\ ErrRaised =>
            /\ parser'.ret.err.tag = "Unexpected"
            /\ parser'.ret.err.actual = parser'.current.val
            /\ parser'.ret.err.expected \subseteq
                    TriedAt(parser', parser'.ret.err.actual) \cup TopFollow(parser')
            /\ TriedAt(parser', parser'.ret.err.actual) \subseteq
                    parser'.ret.err.expected]_vars

\* parse_expr_eof has failed behind whitespace, and a terminal that was tried
\* and matched before the last solid token is not in the reported set
C32_Witness ==
    /\ ParsedErr
    /\ LET err == parser.result.val.err
           k == PlaceOf(parser.input, err.actual)
       IN /\ LastSolidBefore(parser.input, k) < k - 1
          /\ \E u \in parser.tried :
                /\ u[1] <= LastSolidBefore(parser.input, k)
                /\ u[2] \notin err.expected

\* C33: on every token list that ends with Eof the parser never consumes the
\* Eof token and never reads past it: current is never None while parsing, so
\* the "ran out of input" failure of current_token is unreachable, and running
\* out of input is always reported as Unexpected with actual = the Eof token,
\* never as UnexpectedEof.
C33_EofNeverConsumed ==
    /\ parser.current # None
    /\ parser.position <= Len(parser.input)
    /\ parser.current.val = parser.input[parser.position]
    /\ ~parser.panicked
    /\ parser.result # None =>
          /\ parser.result.val # Panic
          /\ parser.result.val.tag = "Err" =>
                /\ parser.result.val.err.tag = "Unexpected"
                /\ parser.current.val.data = "Eof" =>
                      parser.result.val.err.actual = Last(parser.input)

\* parse_expr_eof has failed with the parser at the Eof token behind other
\* tokens
C33_Witness ==
    /\ ParsedErr
    /\ Len(parser.input) > 2
    /\ parser.position = Len(parser.input)
    /\ parser.result.val.err.actual.data = "Eof"

RECURSIVE HasApp(_)
\* e contains an App node
HasApp(e) ==
    CASE e.tag \in {"Var", "U64"} -> FALSE
      [] e.tag = "Lam" -> HasApp(e.body)
      [] e.tag = "App" -> TRUE
      [] e.tag = "AddU64" -> HasApp(e.l) \/ HasApp(e.r)

RECURSIVE NodesOf(_)
\* the number of nodes of e
NodesOf(e) ==
    CASE e.tag \in {"Var", "U64"} -> 1
      [] e.tag = "Lam" -> 1 + NodesOf(e.body)
      [] e.tag \in {"App", "AddU64"} -> 1 + NodesOf(e.l) + NodesOf(e.r)

RECURSIVE NestingDepth(_)
\* the nesting depth of e: the nodes above its deepest leaf
NestingDepth(e) ==
    CASE e.tag \in {"Var", "U64"} -> 0
      [] e.tag = "Lam" -> 1 + NestingDepth(e.body)
      [] e.tag \in {"App", "AddU64"} ->
           1 + (IF NestingDepth(e.l) >= NestingDepth(e.r)
                THEN NestingDepth(e.l) ELSE NestingDepth(e.r))

\* C40: eval_loop terminates on every closed, well-scoped expression that
\* contains no App node: after finitely many steps (at most two for each node)
\* it returns a value or fails with a type mismatch, and during the run the
\* continuation stack never grows beyond the nesting depth of the expression.
C40_NoAppTerminates ==
    WellScoped(expr, 0) /\ ~HasApp(expr) =>
        /\ machine.steps <= 2 * NodesOf(expr)
        /\ machine.status = "running" => ENABLED NextEval
        /\ machine.status = "panicked" => machine.message \in TypeMismatchMessages
        /\ Len(machine.cont) <= NestingDepth(expr)

(***************************************************************************)
(* Claims about the registry (SpecFiles).                                  *)
(***************************************************************************)
RECURSIVE TotalSize(_)
\* the sum of the content lengths, in bytes
TotalSize(fs) == IF fs = <<>> THEN 0 ELSE ByteLen(Head(fs).content) + TotalSize(Tail(fs))

\* C11: after any sequence of new_source_file calls the files are sorted by
\* start, the first starts at Offset(0), each next file starts where the one
\* before it ends and next_addr is the sum of the content lengths; a call
\* returns the next_addr of before the call and leaves the files that were
\* there as they were, behind which it appends one.
C11_RegistryContiguous ==
    /\ [](/\ \A i \in 1..Len(files) :
               files[i].start = (IF i = 1 THEN 0
                                 ELSE files[i - 1].start + ByteLen(files[i - 1].content))
          /\ \A i \in 1..Len(files) : \A j \in i..Len(files) :
               files[i].start <= files[j].start
          /\ next_addr = TotalSize(files))
    /\ [][files' # files =>
            /\ returned' = Some(next_addr)
            /\ Len(files') = Len(files) + 1
            /\ Front(files') = files]_vars

\* three files are registered, an empty one and one with a two-byte character
\* before the last
C11_Witness ==
    /\ Len(files) = 3
    /\ files[1].content = <<TwoByteChar>>
    /\ files[2].content = <<>>
    /\ returned = Some(2)

\* C10: for every offset o < next_addr, get_by_offset(o) returns the file f with
\* f.start <= o < f.start + len(f.content), also when files are empty.
C10_GetByOffsetFindsFile ==
    lookup # None /\ lookup.val.offset < next_addr =>
        /\ lookup.val.res.tag = "Ok"
        /\ LET f == files[lookup.val.res.val + 1]
               o == lookup.val.offset
           IN f.start <= o /\ o < f.start + ByteLen(f.content)

\* the byte at which the k-th character of s begins
BytePos(s, k) == ByteLen(SubSeq(s, 1, k - 1))

\* the bytes of s at which a newline stands
NewlinesAt(s) == {BytePos(s, k) : k \in {k \in 1..Len(s) : s[k] = "\n"}}

\* the first byte of the line of s that byte r is in
LineStartOf(s, r) ==
    LET before == {n \in NewlinesAt(s) : n < r}
    IN IF before = {} THEN 0 ELSE (CHOOSE n \in before : \A m \in before : m <= n) + 1

\* the byte after the line of s that byte r is in: its newline, or the end of s
LineEndOf(s, r) ==
    LET after == {n \in NewlinesAt(s) : n >= r}
    IN IF after = {} THEN ByteLen(s) ELSE CHOOSE n \in after : \A m \in after : n <= m

\* C12: for every offset o inside the range of a file, get_line(o) returns the
\* line that o is in: its content goes from the first byte of the line up to its
\* newline or the end of the file, its number is 1 + the newlines before o and
\* its offset is the global offset of the first byte of the line.
C12_GetLineOfOffset ==
    line # None /\ line.val.offset < src_file.start + ByteLen(src_file.content) =>
        LET s == src_file.content
            r == line.val.offset - src_file.start
        IN line.val.res =
             Ok(Line(src_file.start + LineStartOf(s, r),
                     1 + Cardinality({n \in NewlinesAt(s) : n < r}),
                     StrSlice(s, LineStartOf(s, r), LineEndOf(s, r)).val))

(***************************************************************************)
(* Claims about the compiler and its diagnostics, under SpecMain.          *)
(***************************************************************************)
LexedOk == lex_result # None /\ lex_result.val.tag = "Ok"
LexedErr == lex_result # None /\ lex_result.val.tag = "Err"

\* the diagnostic of the run that has ended
Diagnostic ==
    IF LexedErr THEN lexer_reportable(lex_result.val.err)
    ELSE parser_reportable(parser.result.val.err)

\* text ends with a newline and has no other
NewlineTerminated(text) ==
    /\ text # <<>>
    /\ \A k \in 1..Len(text) : (text[k] = "\n") <=> (k = Len(text))

\* text is spaces followed by carets
IsCaretHighlight(text) ==
    \E k \in 0..Len(text) :
        \A i \in 1..Len(text) : text[i] = (IF i <= k THEN " " ELSE "^")

\* C13: for every lex or parse error of the file the run ends with exactly five
\* newline-terminated lines written: the file name; the gutter padding, as wide
\* as the decimal line number, and " |"; the line number, " | " and the content
\* of the line; the gutter padding, " | " and the caret highlight; the message.
C13_ReportFiveLines ==
    exit_code # None /\ (LexedErr \/ ParsedErr) =>
        /\ Len(stdout) = 5
        /\ \A i \in 1..5 : NewlineTerminated(stdout[i])
        /\ stdout[1] = <<src_file.name, "\n">>
        /\ \E n \in 1..(Len(src_file.content) + 1) :
              LET number == to_string(n)
                  pad == [i \in 1..Len(number) |-> " "]
              IN /\ stdout[2] = pad \o <<" |", "\n">>
                 /\ \E a \in 1..(Len(src_file.content) + 1) :
                    \E b \in 0..Len(src_file.content) :
                       stdout[3] = number \o <<" | ">>
                                       \o SubSeq(src_file.content, a, b) \o <<"\n">>
                 /\ Len(stdout[4]) >= Len(pad) + 2
                 /\ SubSeq(stdout[4], 1, Len(pad) + 1) = pad \o <<" | ">>
                 /\ IsCaretHighlight(SubSeq(stdout[4], Len(pad) + 2,
                                            Len(stdout[4]) - 1))
        /\ stdout[5] = Diagnostic.message \o <<"\n">>

\* C14: the run lexes, then parses; it ends with exit code 0 when both succeed
\* and with exit code 1 on any lex or parse diagnostic; it writes at most one
\* report; when lexing fails the parser is never run.
C14_RunExitCode ==
    /\ parser # None => LexedOk
    /\ LexedErr => parser = None
    /\ Len(stdout) \in {0, 5}
    /\ exit_code # None =>
          /\ (LexedOk /\ ParsedOk) => exit_code = Some(0) /\ stdout = <<>>
          /\ (LexedErr \/ ParsedErr) => exit_code = Some(1)

(***************************************************************************)
(* Claims about the caret line (SpecHighlight).                            *)
(***************************************************************************)
Spaces(n) == [i \in 1..n |-> " "]
Carets(n) == [i \in 1..n |-> "^"]

\* the first n characters of text, all of them when it has fewer
CutOff(text, n) == SubSeq(text, 1, IF n < Len(text) THEN n ELSE Len(text))

\* offset is the offset of a character of the line of the call
OffsetOfLine(call, offset) ==
    /\ call.line_offset <= offset
    /\ offset < call.line_offset + ByteLen(call.line)
    /\ CharsBefore(call.line, offset - call.line_offset) >= 0

\* the column of the character at offset
ColumnOf(call, offset) == CharsBefore(call.line, offset - call.line_offset)

\* C24: the caret line of a point highlight at an offset of the line is spaces
\* up to the column of that offset and then exactly one caret; the caret line
\* of a span highlight is spaces up to the start of the span and then as many
\* carets as the span is long, cut off at the end of the printed line.
C24_CaretLine ==
    highlighted # None =>
        /\ highlight_call.region.tag = "Point"
           /\ OffsetOfLine(highlight_call, highlight_call.region.offset) =>
              highlighted.val =
                  Ok(Spaces(ColumnOf(highlight_call, highlight_call.region.offset))
                     \o <<"^">>)
        /\ highlight_call.region.tag = "Span"
           /\ OffsetOfLine(highlight_call, highlight_call.region.span.start) =>
              highlighted.val =
                  Ok(CutOff(Spaces(ColumnOf(highlight_call,
                                            highlight_call.region.span.start))
                            \o Carets(highlight_call.region.span.length),
                            Len(highlight_call.line)))

(***************************************************************************)
(* Claims about the stack (SpecStack).                                     *)
(***************************************************************************)
\* the values v1..vk that are on the stack, when its size is their number
OnStack(st) == IF st.size = Len(st.pushed) THEN st.pushed ELSE <<>>

\* C26: Stack is LIFO and indexed from the top: with v1..vk on the stack,
\* stack[i] is v(k-i) for 0 <= i < k, peek returns vk, and pop returns vk and
\* leaves v1..v(k-1).
C26_StackLifo ==
    [][value_stack' # value_stack /\ ~value_stack'.panicked =>
          /\ stack_out'.op = "index" /\ stack_out'.ix < Len(OnStack(value_stack)) =>
                stack_out'.val =
                    Some(OnStack(value_stack)[Len(OnStack(value_stack)) - stack_out'.ix])
          /\ stack_out'.op = "peek" /\ OnStack(value_stack) # <<>> =>
                stack_out'.val = Some(Last(OnStack(value_stack)))
          /\ stack_out'.op = "pop" /\ OnStack(value_stack) # <<>> =>
                /\ stack_out'.val = Some(Last(OnStack(value_stack)))
                /\ OnStack(value_stack') = Front(OnStack(value_stack))]_vars

\* a <= b on usize, of which a negative number is a value from 2^63 up
UsizeLeq(a, b) == IF (a < 0) = (b < 0) THEN a <= b ELSE b < 0

\* C27: a stack overflow is fatal: push on a stack whose size equals its
\* capacity fails, stores nothing and leaves size and contents as they were, so
\* that size <= capacity in every state that is reached.
C27_SizeWithinCapacity ==
    [][value_stack' # value_stack =>
          /\ stack_out'.op = "push" /\ value_stack.size = value_stack.capacity =>
                /\ value_stack'.panicked
                /\ value_stack'.size = value_stack.size
                /\ value_stack'.buffer = value_stack.buffer
          /\ UsizeLeq(value_stack'.size, value_stack'.capacity)]_vars

\* the values of s, the last first
Reversed(s) == [i \in 1..Len(s) |-> s[Len(s) + 1 - i]]

\* C38: stack iteration visits exactly the values on the stack: for a stack
\* holding v1..vk (v1 pushed first), iter_from_bottom yields v1, v2, ..., vk
\* and iter_from_top yields vk, ..., v1, each exactly k items and never a slot
\* at or above the current size.
C38_IterVisitsStack ==
    [][value_stack' # value_stack /\ value_stack.size = Len(value_stack.pushed) =>
          /\ stack_out'.op = "iter_from_bottom" =>
                /\ stack_out'.val = Some(value_stack.pushed)
                /\ \A i \in 1..Len(stack_out'.ix) :
                      stack_out'.ix[i] < value_stack.size
          /\ stack_out'.op = "iter_from_top" =>
                /\ stack_out'.val = Some(Reversed(value_stack.pushed))
                /\ \A i \in 1..Len(stack_out'.ix) :
                      stack_out'.ix[i] < value_stack.size]_vars

\* C39: after any sequence of push, pop and peek calls on a Stack, size equals
\* the number of successful pushes minus the number of pops and stays in
\* 0..capacity; pop or peek on an empty stack fails rather than returning a
\* value, reading a slot outside the buffer or moving size out of that range.
C39_EmptyStackFails ==
    [][value_stack' # value_stack =>
          /\ value_stack'.size = Len(value_stack'.pushed)
          /\ 0 <= value_stack'.size /\ value_stack'.size <= value_stack'.capacity
          /\ stack_out'.op \in {"pop", "peek"} /\ value_stack.size = 0 =>
                /\ stack_out'.val = Panic
                /\ value_stack'.size = 0]_vars

====
